---- MODULE Spec2Model ----
(***************************************************************************)
(* Model of the SOL2INK shuttle-backend knowledge pipeline:                *)
(*   - RAGSystem (rag_system.rs) over an external Qdrant index and the     *)
(*     Gemini generation client (gemini_client.rs);                        *)
(*   - ContractMatcher (contract_matcher.rs) over the filesystem.          *)
(*   - TrainingEmbedder (training_embedder.rs), bulk_insert_documents and  *)
(*     the sample-data loader (sample_data.rs): the batch ingestions;      *)
(*   - SolidityParser (parsers/solidity_parser.rs).                        *)
(* Scores are in thousandths (0.95 is 950).                                *)
(***************************************************************************)
EXTENDS Integers, Sequences, FiniteSets, TLC

VARIABLES
  coll,        \* Qdrant: collection name -> [exists, dim, metric, points]
  coll0,       \* Qdrant as it was when the process started (history)
  mainPc,      \* position of main(): the collection set-up steps, then serving
  initRes,     \* result of initialize_collections: "none", "ok" or "err"
  crossScore,  \* knowledge-metric score of two different texts
  crossCache,  \* cache-metric score of two different queries
  nextId,      \* number of uuids drawn so far
  served,      \* number of requests accepted so far
  call,        \* request slot -> the call running in it
  acked,       \* the points of add_document calls that returned an id (history)
  supplied,    \* the id, text and metadata of each of those calls (history)
  fsDir,       \* the files directly under <solidity>/src, as <<stem, extension>>
  fsInk,       \* relative ink! paths that exist under the ink base path
  mPc,         \* position of find_contract_pairs
  contracts,   \* solidity_contracts: what find_solidity_contracts returned
  todo,        \* source files the first loop has not reached yet
  processed,   \* source files the first loop has handled, in order (history)
  readFailed,  \* whether a read of a matched file has failed (history)
  pairs,       \* local pairs
  unmatched_solidity,
  unmatched_ink,
  mRes,        \* what find_contract_pairs returned
  bOp,         \* the batch function in progress
  bPc,         \* its position
  bDocs,       \* the sequence its loop runs over
  bIdx,        \* index of the item the loop is at
  document_ids,
  errors,
  processed_pairs,
  successful_inserts,
  logged,      \* items whose failure was only written to the log (history)
  attempts,    \* the upserts attempted by the loop, in order (history)
  bRes,        \* what the batch function returned
  parseContent, \* the text handed to SolidityParser::parse_contract
  parsed,      \* what parse_contract returned
  declarations, \* the declarations parseContent was written from (history)
  codeContent, \* the lines of the content handed to format_code
  formatted    \* what format_code returned

ragVars == <<coll, coll0, mainPc, initRes, crossScore, crossCache, nextId, served, call, acked,
            supplied>>
matchVars == <<fsDir, fsInk, mPc, contracts, todo, processed, readFailed, pairs,
               unmatched_solidity, unmatched_ink, mRes>>
batchVars == <<bOp, bPc, bDocs, bIdx, document_ids, errors, processed_pairs,
               successful_inserts, logged, attempts, bRes>>
parseVars == <<parseContent, parsed, declarations>>
formatVars == <<codeContent, formatted>>
vars == <<ragVars, matchVars, batchVars, parseVars, formatVars>>

----------------------------------------------------------------------------
(* Bounds of the model *)

MaxIds == 2
MaxCalls == 2

(* Program constants *)

EmbeddingDim == 384
CacheThreshold == 950
AnswerThreshold == 0
ContextTake == 5

SameScore == 1000

\* Request slots. Spec serves one request at a time, in the slots of Sequential.
Procs == {"p1", "p2"}
Sequential == {"p1"}
Texts == {"flip", "transfer"}
Ks == {1, 2}
Answers == {"cached answer"}

regular_collection == "code_knowledge"
cache_collection == "code_knowledge_cache"
Collections == {regular_collection, cache_collection}

RequiredMetric(c) == IF c = regular_collection THEN "Cosine" ELSE "Euclid"

----------------------------------------------------------------------------
(* Maps (HashMap<String, String>, JSON payloads) as functions *)

EmptyMap == [k \in {} |-> ""]

MapPut(base, over) ==
  [k \in (DOMAIN base) \cup (DOMAIN over) |->
     IF k \in DOMAIN over THEN over[k] ELSE base[k]]

MapWithout(m, key) == [k \in (DOMAIN m) \ {key} |-> m[k]]

Metas == {EmptyMap, [file_path |-> "flipper/lib.rs"]}

NoThreshold == [some |-> FALSE, v |-> 0]
SomeThreshold(v) == [some |-> TRUE, v |-> v]
Thresholds == {NoThreshold, SomeThreshold(500)}

Embed(text) == <<"embedding", text>>

DocumentPayload(text, metadata) ==
  MapPut([content |-> text, timestamp |-> "now"], metadata)

CachePayload(query, answer) ==
  [query |-> query, answer |-> answer, timestamp |-> "now"]

----------------------------------------------------------------------------
(* The vector index (Qdrant) as the code uses it *)

Min(a, b) == IF a < b THEN a ELSE b

\* Score of a stored point for a query vector, under the collection's metric.
Score(c, queryVec, point) ==
  IF point.vec = queryVec THEN SameScore
  ELSE IF c = regular_collection THEN crossScore ELSE crossCache

Eligible(c, queryVec, th) ==
  {pt \in coll[c].points : (~th.some) \/ Score(c, queryVec, pt) >= th.v}

Hit(c, queryVec, pt) ==
  [id |-> pt.id, score |-> Score(c, queryVec, pt), payload |-> pt.payload]

\* search_points(collection, vector, limit).with_payload(true)[.score_threshold(th)]:
\* every answer the index may give (ties between equal scores in any order).
SearchPoints(c, queryVec, limit, th) ==
  LET el == Eligible(c, queryVec, th)
      n  == Min(limit, Cardinality(el))
  IN  { [i \in 1..n |-> Hit(c, queryVec, f[i])] :
          f \in { g \in [1..n -> el] :
                    /\ \A i, j \in 1..n : i # j => g[i] # g[j]
                    /\ \A i, j \in 1..n :
                         i < j => Score(c, queryVec, g[i]) >= Score(c, queryVec, g[j])
                    /\ \A pt \in el : \A i \in 1..n :
                         (\A j \in 1..n : g[j] # pt)
                            => Score(c, queryVec, pt) <= Score(c, queryVec, g[i]) } }

\* An index request on a collection that does not exist fails; any request may
\* fail in transport.
IndexOutcomes(c) == IF coll[c].exists THEN {TRUE, FALSE} ELSE {FALSE}

\* Mutant: an upsert replaces what the collection holds.
UpsertReplacesCollection(c, point) == [coll EXCEPT ![c].points = {point}]

UpsertPoints(c, point) ==
  [coll EXCEPT ![c].points = {pt \in @ : pt.id # point.id} \cup {point}]

----------------------------------------------------------------------------
(* Results *)

NoRes == [kind |-> "none"]
ErrRes(e) == [kind |-> "err", err |-> e]
OkId(id) == [kind |-> "id", id |-> id]
OkResults(rs) == [kind |-> "results", results |-> rs]
OkText(t) == [kind |-> "text", text |-> t]
OkOption(o) == [kind |-> "option", opt |-> o]
OkFormatted(f) == [kind |-> "formatted", formatted |-> f]

None == [some |-> FALSE, v |-> ""]
Some(v) == [some |-> TRUE, v |-> v]

\* Strings the code builds, by what they are made of.
NotEnoughInformation == [t |-> "not_enough_information", q |-> "", ctx |-> <<>>]
Apology == [t |-> "apology", q |-> "", ctx |-> <<>>]
ApologyUnavailable == [t |-> "apology_unavailable", q |-> "", ctx |-> <<>>]
AiText(prompt, ctx) == [t |-> "ai", q |-> prompt, ctx |-> ctx]
TroubleWithContext(ctx) == [t |-> "trouble_with_context", q |-> "", ctx |-> ctx]

----------------------------------------------------------------------------
(* GeminiClient::generate_response: what the HTTP exchange came to *)

GenOutcomes == {"ok", "transport", "status", "parse", "empty"}

GenerateResponse(outcome, prompt, context) ==
  CASE outcome = "ok"        -> [ok |-> TRUE, text |-> AiText(prompt, context)]
    [] outcome = "empty"     -> [ok |-> TRUE, text |-> Apology]
    [] outcome = "parse"     -> [ok |-> TRUE, text |-> Apology]
    [] outcome = "status"    -> [ok |-> TRUE, text |-> Apology]
    [] outcome = "transport" -> [ok |-> TRUE, text |-> ApologyUnavailable]

----------------------------------------------------------------------------
(* RAGSystem: local computations *)

Take(seq, n) == SubSeq(seq, 1, Min(n, Len(seq)))

\* RAGSystem::format_code. A content is the sequence of its lines
\* (content.lines()), each line its text and its number in the content; the
\* result is the sequence of the lines pushed, each followed by a line end.
LeadingLines == 5
LineCap == 50

Line(text, n) == <<text, n>>
BlankTexts == {"", "  "}
MoreCodeMarker == Line("    // ... more code ...", 0)

\* line.trim().is_empty()
IsBlankLine(line) == line[1] \in BlankTexts

\* line_count > 50
PastCap(line_count) == line_count > LineCap

\* The loop of format_code from line line_count on, formatted being what has
\* been pushed so far
RECURSIVE FormatCodeFrom(_, _, _)
FormatCodeFrom(lines, line_count, out) ==
  IF line_count > Len(lines) THEN out
  ELSE IF line_count < LeadingLines /\ IsBlankLine(lines[line_count])
    THEN FormatCodeFrom(lines, line_count + 1, out)
  ELSE IF PastCap(line_count)
    THEN Append(Append(out, lines[line_count]), MoreCodeMarker)
  ELSE FormatCodeFrom(lines, line_count + 1, Append(out, lines[line_count]))

FormatCode(lines) == FormatCodeFrom(lines, 1, <<>>)

\* The lines of a text of the service model: one line
ContentLines(content) == <<Line(content, 1)>>

Formatted(lines) == [done |-> TRUE, lines |-> lines]
NotFormatted == [done |-> FALSE, lines |-> <<>>]

\* search_documents, the loop over search_result.result
ToSearchResult(hit) ==
  [content  |-> IF "content" \in DOMAIN hit.payload THEN hit.payload["content"] ELSE "",
   score    |-> hit.score,
   metadata |-> MapWithout(hit.payload, "content")]

ToSearchResults(hits) == [i \in 1..Len(hits) |-> ToSearchResult(hits[i])]

\* generate_rag_response, one context block per result
ContextItem(result) ==
  [source |-> IF "file_path" \in DOMAIN result.metadata
                THEN Some(result.metadata["file_path"]) ELSE None,
   code   |-> FormatCode(ContentLines(result.content))]

PrepareContext(search_results) ==
  LET top == Take(search_results, ContextTake)
  IN  [i \in 1..Len(top) |-> ContextItem(top[i])]

MigrationPrompt(query) == <<"migration_prompt", query>>

\* generate_rag_response, the match on the generator's result
RagResponse(generated, context) ==
  IF generated.ok THEN OkText(generated.text)
  ELSE OkText(TroubleWithContext(context))

\* search_cache, after the index answered
CacheAnswer(hits) ==
  IF Len(hits) > 0
    THEN (IF "answer" \in DOMAIN hits[1].payload
            THEN Some(hits[1].payload["answer"]) ELSE None)
    ELSE None

----------------------------------------------------------------------------
(* Calls in flight *)

Idle ==
  [op |-> "idle", pc |-> "idle", q |-> "", k |-> 0, th |-> NoThreshold,
   meta |-> EmptyMap, ans |-> "", id |-> 0, results |-> <<>>, ctx |-> <<>>,
   res |-> NoRes, gen |-> 0, genOut |-> "none", idxReq |-> 0, idxErr |-> 0]

Serving == mainPc = <<"serving", "">>

IsIdle(p) == call[p].op = "idle"

\* Mutant: requests are taken while main() is still setting the collections up.
AcceptingAnytime(p) == IsIdle(p) /\ served < MaxCalls

Accepting(p) == Serving /\ IsIdle(p) /\ served < MaxCalls
IsDone(p) == call[p].pc = "done"

----------------------------------------------------------------------------
(* main(): RAGSystem::initialize_collections, then the service *)

Absent == [exists |-> FALSE, dim |-> 0, metric |-> "", points |-> {}]

\* Mutant: both collections are created with the Cosine metric.
CreatedCosine(c) ==
  [exists |-> TRUE, dim |-> EmbeddingDim, metric |-> "Cosine", points |-> {}]


Created(c) ==
  [exists |-> TRUE, dim |-> EmbeddingDim, metric |-> RequiredMetric(c), points |-> {}]

\* A point left in the index by an earlier run of the service.
OldPoint(c) ==
  [id |-> 0, vec |-> Embed("flip"),
   payload |-> IF c = regular_collection
                 THEN DocumentPayload("flip", EmptyMap)
                 ELSE CachePayload("flip", "cached answer")]

\* What the index may hold for a collection when the process starts.
PreStates(c) ==
  { Absent,
    [Created(c) EXCEPT !.points = {OldPoint(c)}],
    [Created(c) EXCEPT !.dim = 768, !.points = {OldPoint(c)}] }

InitFails ==
  /\ mainPc' = <<"serving", "">>
  /\ initRes' = "err"

\* What follows create_collection's success
AfterCreate(c) ==
  IF c = regular_collection
    THEN mainPc' = <<"list", cache_collection>> /\ initRes' = initRes
    ELSE mainPc' = <<"serving", "">> /\ initRes' = "ok"

\* What create_*_collection does with an existing collection
NeedsDelete(c) == coll[c].exists

ListCollections(c) ==
  /\ mainPc = <<"list", c>>
  /\ \E ok \in BOOLEAN :
       IF ok
         THEN /\ mainPc' = IF NeedsDelete(c) THEN <<"delete", c>> ELSE <<"create", c>>
              /\ initRes' = initRes
         ELSE InitFails
  /\ UNCHANGED <<coll, coll0, acked, supplied, crossScore, crossCache, nextId, call, served,
                 matchVars, batchVars, parseVars, formatVars>>

DeleteCollection(c) ==
  /\ mainPc = <<"delete", c>>
  /\ \E ok \in BOOLEAN :
       IF ok
         THEN /\ coll' = [coll EXCEPT ![c] = Absent]
              /\ mainPc' = <<"create", c>>
              /\ initRes' = initRes
         ELSE InitFails /\ coll' = coll
  /\ UNCHANGED <<coll0, acked, supplied, crossScore, crossCache, nextId, call, served,
                 matchVars, batchVars, parseVars, formatVars>>

CreateCollection(c) ==
  /\ mainPc = <<"create", c>>
  /\ \E ok \in (IF coll[c].exists THEN {FALSE} ELSE {TRUE, FALSE}) :
       IF ok
         THEN coll' = [coll EXCEPT ![c] = Created(c)] /\ AfterCreate(c)
         ELSE InitFails /\ coll' = coll
  /\ UNCHANGED <<coll0, acked, supplied, crossScore, crossCache, nextId, call, served,
                 matchVars, batchVars, parseVars, formatVars>>

----------------------------------------------------------------------------
(* RAGSystem::add_document *)

\* Mutant: the id of a point is made from the text instead of a fresh uuid.
DocumentPointByContent(id, text, metadata) ==
  [id |-> IF text = "flip" THEN 1 ELSE 2, vec |-> Embed(text),
   payload |-> DocumentPayload(text, metadata)]

AddDocumentResult(ok, document_id) ==
  IF ok THEN OkId(document_id) ELSE ErrRes("IndexError")

DocumentPoint(id, text, metadata) ==
  [id |-> id, vec |-> Embed(text), payload |-> DocumentPayload(text, metadata)]

AddDocumentStart(p, text, metadata) ==
  /\ Accepting(p) /\ nextId < MaxIds
  /\ served' = served + 1
  /\ nextId' = nextId + 1
  /\ call' = [call EXCEPT ![p] =
       [Idle EXCEPT !.op = "add_document", !.pc = "upsert", !.q = text,
                    !.meta = metadata, !.id = nextId + 1]]
  /\ UNCHANGED <<coll, coll0, acked, supplied, mainPc, initRes, crossScore, crossCache,
                 matchVars, batchVars, parseVars, formatVars>>

AddDocumentUpsert(p) ==
  /\ call[p].op = "add_document" /\ call[p].pc = "upsert"
  /\ \E ok \in IndexOutcomes(regular_collection) :
       /\ coll' = IF ok
                    THEN UpsertPoints(regular_collection,
                           DocumentPoint(call[p].id, call[p].q, call[p].meta))
                    ELSE coll
       /\ acked' = IF ok
                     THEN acked \cup {DocumentPoint(call[p].id, call[p].q, call[p].meta)}
                     ELSE acked
       /\ supplied' = IF ok
                        THEN supplied \cup {[id |-> call[p].id, text |-> call[p].q,
                                             metadata |-> call[p].meta]}
                        ELSE supplied
       /\ call' = [call EXCEPT ![p].pc = "done",
                               ![p].res = AddDocumentResult(ok, call[p].id),
                               ![p].idxReq = @ + 1,
                               ![p].idxErr = @ + (IF ok THEN 0 ELSE 1)]
  /\ UNCHANGED <<coll0, mainPc, initRes, crossScore, crossCache, nextId, served,
                 matchVars, batchVars, parseVars, formatVars>>

----------------------------------------------------------------------------
(* RAGSystem::search_documents *)

\* Mutant: a failed search is taken for a search without results.
SearchDocumentsSwallowsError(ok, hits) ==
  IF ok THEN OkResults(ToSearchResults(hits)) ELSE OkResults(<<>>)


SearchDocumentsResult(ok, hits) ==
  IF ok THEN OkResults(ToSearchResults(hits)) ELSE ErrRes("IndexError")

\* Mutant: the score threshold is not handed to the index.
SearchDocumentsHitsUnfiltered(query, limit, score_threshold) ==
  SearchPoints(regular_collection, Embed(query), limit, NoThreshold)

\* The index's answers to search_documents' one request
SearchDocumentsHits(query, limit, score_threshold) ==
  SearchPoints(regular_collection, Embed(query), limit, score_threshold)

SearchStart(p, query, limit, score_threshold) ==
  /\ Accepting(p)
  /\ served' = served + 1
  /\ call' = [call EXCEPT ![p] =
       [Idle EXCEPT !.op = "search", !.pc = "search", !.q = query, !.k = limit,
                    !.th = score_threshold]]
  /\ UNCHANGED <<coll, coll0, acked, supplied, mainPc, initRes, crossScore, crossCache, nextId,
                 matchVars, batchVars, parseVars, formatVars>>

SearchStep(p) ==
  /\ call[p].op = "search" /\ call[p].pc = "search"
  /\ \E ok \in IndexOutcomes(regular_collection) :
     \E hits \in SearchDocumentsHits(call[p].q, call[p].k, call[p].th) :
       call' = [call EXCEPT ![p].pc = "done",
                            ![p].res = SearchDocumentsResult(ok, hits),
                            ![p].idxReq = @ + 1,
                            ![p].idxErr = @ + (IF ok THEN 0 ELSE 1)]
  /\ UNCHANGED <<coll, coll0, acked, supplied, mainPc, initRes, crossScore, crossCache, nextId, served,
                 matchVars, batchVars, parseVars, formatVars>>

----------------------------------------------------------------------------
(* RAGSystem::generate_rag_response *)

\* Mutant: the is_empty() test on the search results is left out.
GoesToGeneratorUnchecked(searched) == searched.kind = "results"

\* Whether the call goes on to the generator after the knowledge search
GoesToGenerator(searched) ==
  searched.kind = "results" /\ Len(searched.results) > 0

\* What the call returns straight after the knowledge search, when it does
RagEarlyReturn(searched) ==
  IF searched.kind = "err" THEN searched ELSE OkText(NotEnoughInformation)

AnswerStart(p, query, context_limit) ==
  /\ Accepting(p)
  /\ served' = served + 1
  /\ call' = [call EXCEPT ![p] =
       [Idle EXCEPT !.op = "answer", !.pc = "search", !.q = query,
                    !.k = context_limit, !.th = SomeThreshold(AnswerThreshold)]]
  /\ UNCHANGED <<coll, coll0, acked, supplied, mainPc, initRes, crossScore, crossCache, nextId,
                 matchVars, batchVars, parseVars, formatVars>>

AnswerSearch(p) ==
  /\ call[p].op = "answer" /\ call[p].pc = "search"
  /\ \E ok \in IndexOutcomes(regular_collection) :
     \E hits \in SearchDocumentsHits(call[p].q, call[p].k, call[p].th) :
       LET searched == SearchDocumentsResult(ok, hits)
       IN  call' = [call EXCEPT
             ![p].idxReq = @ + 1,
             ![p].idxErr = @ + (IF ok THEN 0 ELSE 1),
             ![p].results = IF searched.kind = "results" THEN searched.results ELSE <<>>,
             ![p].ctx = IF GoesToGenerator(searched)
                          THEN PrepareContext(searched.results) ELSE <<>>,
             ![p].pc = IF GoesToGenerator(searched) THEN "generate" ELSE "done",
             ![p].res = IF GoesToGenerator(searched) THEN NoRes
                        ELSE RagEarlyReturn(searched)]
  /\ UNCHANGED <<coll, coll0, acked, supplied, mainPc, initRes, crossScore, crossCache, nextId, served,
                 matchVars, batchVars, parseVars, formatVars>>

\* Mutant: the generator is asked a second time.
AnswerGenerateRetry(p) ==
  /\ call[p].op = "answer" /\ call[p].pc = "generate"
  /\ \E outcome \in GenOutcomes :
       call' = [call EXCEPT
         ![p].pc = "done",
         ![p].gen = @ + 2,
         ![p].genOut = outcome,
         ![p].res = RagResponse(
                      GenerateResponse(outcome, MigrationPrompt(call[p].q), call[p].ctx),
                      call[p].ctx)]
  /\ UNCHANGED <<coll, coll0, acked, supplied, mainPc, initRes, crossScore, crossCache,
                 nextId, served, matchVars, batchVars, parseVars, formatVars>>

AnswerGenerate(p) ==
  /\ call[p].op = "answer" /\ call[p].pc = "generate"
  /\ \E outcome \in GenOutcomes :
       call' = [call EXCEPT
         ![p].pc = "done",
         ![p].gen = @ + 1,
         ![p].genOut = outcome,
         ![p].res = RagResponse(
                      GenerateResponse(outcome, MigrationPrompt(call[p].q), call[p].ctx),
                      call[p].ctx)]
  /\ UNCHANGED <<coll, coll0, acked, supplied, mainPc, initRes, crossScore, crossCache, nextId, served,
                 matchVars, batchVars, parseVars, formatVars>>

----------------------------------------------------------------------------
(* RAGSystem::generate_structured_response *)

StructuredTake == 3

CodeExample(result) ==
  [code |-> FormatCode(ContentLines(result.content)),
   source_file |-> IF "file_path" \in DOMAIN result.metadata
                     THEN Some(result.metadata["file_path"]) ELSE None,
   relevance_score |-> result.score]

\* Mutant: the summary counts the search results, not the examples.
FormattedResponseCountsResults(query, search_results) ==
  IF Len(search_results) = 0
    THEN [query |-> query, summary |-> <<"no_examples_found">>, examples |-> <<>>]
    ELSE LET top == Take(search_results, StructuredTake)
             examples == [i \in 1..Len(top) |-> CodeExample(top[i])]
         IN  [query |-> query, summary |-> <<"found", Len(search_results)>>,
              examples |-> examples]

FormattedResponse(query, search_results) ==
  IF Len(search_results) = 0
    THEN [query |-> query, summary |-> <<"no_examples_found">>, examples |-> <<>>]
    ELSE LET top == Take(search_results, StructuredTake)
             examples == [i \in 1..Len(top) |-> CodeExample(top[i])]
         IN  [query |-> query, summary |-> <<"found", Len(examples)>>,
              examples |-> examples]

StructuredResult(query, searched) ==
  IF searched.kind = "err" THEN searched
  ELSE OkFormatted(FormattedResponse(query, searched.results))

StructuredStart(p, query, context_limit) ==
  /\ Accepting(p)
  /\ served' = served + 1
  /\ call' = [call EXCEPT ![p] =
       [Idle EXCEPT !.op = "structured", !.pc = "search", !.q = query,
                    !.k = context_limit, !.th = SomeThreshold(AnswerThreshold)]]
  /\ UNCHANGED <<coll, coll0, acked, supplied, mainPc, initRes, crossScore, crossCache, nextId,
                 matchVars, batchVars, parseVars, formatVars>>

StructuredSearch(p) ==
  /\ call[p].op = "structured" /\ call[p].pc = "search"
  /\ \E ok \in IndexOutcomes(regular_collection) :
     \E hits \in SearchDocumentsHits(call[p].q, call[p].k, call[p].th) :
       LET searched == SearchDocumentsResult(ok, hits)
       IN  call' = [call EXCEPT
             ![p].idxReq = @ + 1,
             ![p].idxErr = @ + (IF ok THEN 0 ELSE 1),
             ![p].results = IF searched.kind = "results" THEN searched.results ELSE <<>>,
             ![p].pc = "done",
             ![p].res = StructuredResult(call[p].q, searched)]
  /\ UNCHANGED <<coll, coll0, acked, supplied, mainPc, initRes, crossScore, crossCache, nextId, served,
                 matchVars, batchVars, parseVars, formatVars>>

----------------------------------------------------------------------------
(* RAGSystem::search_cache and RAGSystem::add_to_cache *)

SearchCacheHits(query) ==
  SearchPoints(cache_collection, Embed(query), 1, SomeThreshold(CacheThreshold))

SearchCacheResult(ok, hits) ==
  IF ok THEN OkOption(CacheAnswer(hits)) ELSE ErrRes("IndexError")

SearchCacheStart(p, query) ==
  /\ Accepting(p)
  /\ served' = served + 1
  /\ call' = [call EXCEPT ![p] =
       [Idle EXCEPT !.op = "search_cache", !.pc = "cache_search", !.q = query,
                    !.k = 1, !.th = SomeThreshold(CacheThreshold)]]
  /\ UNCHANGED <<coll, coll0, acked, supplied, mainPc, initRes, crossScore, crossCache, nextId,
                 matchVars, batchVars, parseVars, formatVars>>

SearchCacheStep(p) ==
  /\ call[p].op = "search_cache" /\ call[p].pc = "cache_search"
  /\ \E ok \in IndexOutcomes(cache_collection) :
     \E hits \in SearchCacheHits(call[p].q) :
       call' = [call EXCEPT ![p].pc = "done",
                            ![p].res = SearchCacheResult(ok, hits),
                            ![p].idxReq = @ + 1,
                            ![p].idxErr = @ + (IF ok THEN 0 ELSE 1)]
  /\ UNCHANGED <<coll, coll0, acked, supplied, mainPc, initRes, crossScore, crossCache, nextId, served,
                 matchVars, batchVars, parseVars, formatVars>>

CachePoint(id, query, answer) ==
  [id |-> id, vec |-> Embed(query), payload |-> CachePayload(query, answer)]

AddToCacheResult(ok, cache_id) ==
  IF ok THEN OkId(cache_id) ELSE ErrRes("IndexError")

AddToCacheStart(p, query, answer) ==
  /\ Accepting(p) /\ nextId < MaxIds
  /\ served' = served + 1
  /\ nextId' = nextId + 1
  /\ call' = [call EXCEPT ![p] =
       [Idle EXCEPT !.op = "add_to_cache", !.pc = "cache_upsert", !.q = query,
                    !.ans = answer, !.id = nextId + 1]]
  /\ UNCHANGED <<coll, coll0, acked, supplied, mainPc, initRes, crossScore, crossCache,
                 matchVars, batchVars, parseVars, formatVars>>

AddToCacheUpsert(p) ==
  /\ call[p].op = "add_to_cache" /\ call[p].pc = "cache_upsert"
  /\ \E ok \in IndexOutcomes(cache_collection) :
       /\ coll' = IF ok
                    THEN UpsertPoints(cache_collection,
                           CachePoint(call[p].id, call[p].q, call[p].ans))
                    ELSE coll
       /\ call' = [call EXCEPT ![p].pc = "done",
                               ![p].res = AddToCacheResult(ok, call[p].id),
                               ![p].idxReq = @ + 1,
                               ![p].idxErr = @ + (IF ok THEN 0 ELSE 1)]
  /\ UNCHANGED <<coll0, acked, supplied, mainPc, initRes, crossScore, crossCache, nextId, served,
                 matchVars, batchVars, parseVars, formatVars>>

\* The caller takes the result; the slot is free for the next request.
Return(p) ==
  /\ IsDone(p)
  /\ call' = [call EXCEPT ![p] = Idle]
  /\ UNCHANGED <<coll, coll0, acked, supplied, mainPc, initRes, crossScore, crossCache, nextId, served,
                 matchVars, batchVars, parseVars, formatVars>>

----------------------------------------------------------------------------
(* ContractMatcher *)

solidity_base_path == "solidity-examples"
ink_base_path == "ink-examples-main"

\* get_contract_mappings
ContractMappings ==
  [SimpleERC20    |-> "erc20/lib.rs",
   SimpleNFT      |-> "erc721/lib.rs",
   SimpleERC1155  |-> "erc1155/lib.rs",
   Flipper        |-> "flipper/lib.rs",
   Counter        |-> "incrementer/lib.rs",
   SimpleStorage  |-> "contract-storage/lib.rs",
   MultiSigWallet |-> "multisig/lib.rs",
   SimpleEscrow   |-> "payment-channel/lib.rs",
   EventEmitter   |-> "events/lib.rs",
   CallerContract |-> "basic-contract-caller/lib.rs",
   TargetContract |-> "basic-contract-caller/other-contract/lib.rs"]

\* The files the model's filesystem may hold.
DirUniverse ==
  {<<"Flipper", "sol">>, <<"Counter", "sol">>, <<"Greeter", "sol">>, <<"README", "md">>}
InkUniverse == {"flipper/lib.rs", "incrementer/lib.rs", "erc20/lib.rs"}

\* entry.path() of a directory entry, and format!("{}/{}", ink_base_path, ink_path)
EntryPath(entry) == <<solidity_base_path, "src", entry[1], entry[2]>>
\* Mutant: every registry entry leads to one and the same target path.
FullInkPathShared(ink_path) == <<ink_base_path, "lib.rs">>

FullInkPath(ink_path) == <<ink_base_path, ink_path>>

\* Path::extension and Path::file_stem of such a path
Extension(path) == path[4]
ExtractContractName(path) == path[3]

\* Path::new(&full_ink_path).exists()
InkExists(ink_path) == ink_path \in fsInk

\* find_solidity_contracts: read_dir may fail as a whole, an entry may fail alone
FindSolidityContracts(readDirOk, entriesOk) ==
  IF readDirOk
    THEN {EntryPath(e) : e \in {x \in fsDir \cap entriesOk : Extension(EntryPath(x)) = "sol"}}
    ELSE {}

\* get_contract_description, by what it is made of
ContractDescription(contract_name) ==
  IF contract_name \in DOMAIN ContractMappings
    THEN <<"description of", contract_name>>
    ELSE <<"Smart contract implementation:", contract_name>>

\* Mutant: the existence of the mapped ink! file is not tested.
IsRegistered(contract_name) == contract_name \in DOMAIN ContractMappings

\* The first loop's test: registered, and the mapped ink! file exists
HasInkCounterpart(contract_name) ==
  /\ contract_name \in DOMAIN ContractMappings
  /\ InkExists(ContractMappings[contract_name])

\* What fs::read_to_string may return for a file that can be read: a file may
\* hold no bytes at all.
EmptyContent == ""
FileContents == {EmptyContent, "contract text"}

NewPair(solidity_contract, solidity_content, ink_content) ==
  LET contract_name == ExtractContractName(solidity_contract)
  IN  [solidity_path |-> solidity_contract,
       ink_path |-> FullInkPath(ContractMappings[contract_name]),
       contract_type |-> contract_name,
       description |-> ContractDescription(contract_name),
       solidity_content |-> solidity_content,
       ink_content |-> ink_content]

\* Mutant: the pairs already emitted are not consulted.
InkExistsOnly(contract_name, ps) == InkExists(ContractMappings[contract_name])

\* The second loop's test for one registry entry
IsUnmatchedInk(contract_name, ps) ==
  /\ InkExists(ContractMappings[contract_name])
  /\ ~ \E i \in 1..Len(ps) : ps[i].contract_type = contract_name

\* Mutant: the loop over the registry is left out.
UnmatchedInkPathsNone(ps) == {}

UnmatchedInkPaths(ps) ==
  {FullInkPath(ContractMappings[n]) : n \in {m \in DOMAIN ContractMappings : IsUnmatchedInk(m, ps)}}

\* The orders in which a loop over a HashMap or a directory may yield a set
Orderings(S) ==
  {f \in [1..Cardinality(S) -> S] : \A i, j \in 1..Cardinality(S) : i # j => f[i] # f[j]}

MatchOk(ps, us, ui) ==
  [ok |-> TRUE, pairs |-> ps, unmatched_solidity |-> us, unmatched_ink |-> ui, err |-> ""]
MatchErr(e) ==
  [ok |-> FALSE, pairs |-> <<>>, unmatched_solidity |-> <<>>, unmatched_ink |-> <<>>, err |-> e]
MatchNone == [MatchErr("") EXCEPT !.err = "not returned"]

\* What reading the two files of a matched pair may come to
ReadOutcomes == {"ok", "solidity_unreadable", "ink_unreadable"}

ReadError(outcome) ==
  IF outcome = "solidity_unreadable"
    THEN MatchErr("Failed to read Solidity contract")
    ELSE MatchErr("Failed to read ink! contract")

\* Mutant: a failed read skips the file and the loop goes on.
PcAfterReadContinues(outcome) == "loop"

\* Where find_contract_pairs stands after the reads of a matched pair
PcAfterRead(outcome) == IF outcome = "ok" THEN "loop" ELSE "done"

\* Mutant: the file is not recorded as unmatched.
PushUnmatchedDropped(us, solidity_contract) == us

\* unmatched_solidity.push(solidity_contract)
PushUnmatched(us, solidity_contract) == Append(us, solidity_contract)

ListSources ==
  /\ mPc = "list"
  /\ \E readDirOk \in BOOLEAN : \E entriesOk \in SUBSET fsDir :
       /\ contracts' = FindSolidityContracts(readDirOk, entriesOk)
       /\ todo' = contracts'
  /\ mPc' = "loop"
  /\ UNCHANGED <<fsDir, fsInk, processed, readFailed, pairs, unmatched_solidity,
                 unmatched_ink, mRes, ragVars, batchVars, parseVars, formatVars>>

\* One iteration of the loop over solidity_contracts, for a matched file
ProcessMatched(solidity_contract) ==
  /\ mPc = "loop" /\ solidity_contract \in todo
  /\ HasInkCounterpart(ExtractContractName(solidity_contract))
  /\ \E outcome \in ReadOutcomes, solidity_content \in FileContents,
          ink_content \in FileContents :
       /\ pairs' = IF outcome = "ok"
                     THEN Append(pairs, NewPair(solidity_contract, solidity_content,
                                                ink_content))
                     ELSE pairs
       /\ readFailed' = (readFailed \/ outcome # "ok")
       /\ mPc' = PcAfterRead(outcome)
       /\ mRes' = IF mPc' = "done" THEN ReadError(outcome) ELSE mRes
  /\ todo' = todo \ {solidity_contract}
  /\ processed' = Append(processed, solidity_contract)
  /\ UNCHANGED <<fsDir, fsInk, contracts, unmatched_solidity, unmatched_ink, ragVars, batchVars, parseVars, formatVars>>

\* One iteration of the loop over solidity_contracts, for an unmatched file
ProcessUnmatched(solidity_contract) ==
  /\ mPc = "loop" /\ solidity_contract \in todo
  /\ ~HasInkCounterpart(ExtractContractName(solidity_contract))
  /\ unmatched_solidity' = PushUnmatched(unmatched_solidity, solidity_contract)
  /\ todo' = todo \ {solidity_contract}
  /\ processed' = Append(processed, solidity_contract)
  /\ UNCHANGED <<fsDir, fsInk, mPc, contracts, readFailed, pairs, unmatched_ink, mRes,
                 ragVars, batchVars, parseVars, formatVars>>

\* The loop over contract_mappings, and the return
FindUnmatchedInk ==
  /\ mPc = "loop" /\ todo = {}
  /\ \E ui \in Orderings(UnmatchedInkPaths(pairs)) :
       /\ unmatched_ink' = ui
       /\ mRes' = MatchOk(pairs, unmatched_solidity, ui)
  /\ mPc' = "done"
  /\ UNCHANGED <<fsDir, fsInk, contracts, todo, processed, readFailed, pairs,
                 unmatched_solidity, ragVars, batchVars, parseVars, formatVars>>

----------------------------------------------------------------------------
(* TrainingEmbedder: create_training_pair *)

\* A text assembled by format! is the sequence of its parts: the literal
\* stretches of the template and the values substituted for its placeholders.
Lit(s) == [lit |-> s]
Ident(contract_type) == [contract_type |-> contract_type]
Desc(description) == [description |-> description]
SolidityCode(content) == [solidity_code |-> content]
InkCode(content) == [ink_code |-> content]
Notes(migration_notes) == [migration_notes |-> migration_notes]

\* The identifiers generate_migration_notes has a template of their own for
MigrationTemplates == {"SimpleERC20", "Flipper", "Counter", "SimpleNFT"}

TemplateTitle(contract_type) ==
  CASE contract_type = "SimpleERC20" -> "Solidity ERC20 to ink! ERC20"
    [] contract_type = "Flipper" -> "Solidity Flipper to ink! Flipper"
    [] contract_type = "Counter" -> "Solidity Counter to ink! Incrementer"
    [] OTHER -> "Solidity ERC721 to ink! ERC721"

\* Mutant: the generic notes do not carry the identifier.
GenerateMigrationNotesAnonymous(contract_type) ==
  IF contract_type \in MigrationTemplates
    THEN <<Lit("## Migration Notes: "), Lit(TemplateTitle(contract_type)),
           Lit("### Key Differences, Migration Steps, Patterns")>>
    ELSE <<Lit("## Migration Notes: "), Lit(" Contract"),
           Lit("### General Migration Guidelines, Common Patterns")>>

GenerateMigrationNotes(contract_type) ==
  IF contract_type \in MigrationTemplates
    THEN <<Lit("## Migration Notes: "), Lit(TemplateTitle(contract_type)),
           Lit("### Key Differences, Migration Steps, Patterns")>>
    ELSE <<Lit("## Migration Notes: "), Ident(contract_type), Lit(" Contract"),
           Lit("### General Migration Guidelines, Common Patterns")>>

CreateCombinedContent(pair, migration_notes) ==
  <<Lit("# "), Ident(pair.contract_type), Lit(" Implementation: Solidity vs ink!"),
    Lit("## Overview"), Desc(pair.description),
    Lit("## Solidity Implementation (solidity fence)"), SolidityCode(pair.solidity_content),
    Lit("(fence) ## ink! Implementation (rust fence)"), InkCode(pair.ink_content),
    Lit("(fence)"), Notes(migration_notes),
    Lit("## Usage Examples ### Solidity Usage: (solidity fence) // Deploy contract"),
    Ident(pair.contract_type), Lit(" token = new "), Ident(pair.contract_type),
    Lit("(); (fence) ### ink! Usage: (rust fence) let contract = "),
    Ident(pair.contract_type),
    Lit("::new(); (fence) ## Key Takeaways ## Common Questions")>>

\* create_training_pair: Result<TrainingPair, String>
CreateTrainingPair(pair) ==
  LET migration_notes == GenerateMigrationNotes(pair.contract_type)
      combined_content == CreateCombinedContent(pair, migration_notes)
  IN  [ok |-> TRUE,
       solidity_content |-> pair.solidity_content,
       ink_content |-> pair.ink_content,
       contract_type |-> pair.contract_type,
       description |-> pair.description,
       migration_notes |-> migration_notes,
       combined_content |-> combined_content]

\* embed_training_pair: the metadata handed to add_document
TrainingMetadata(training_pair) ==
  [contract_type |-> training_pair.contract_type,
   source |-> "solidity_ink_training",
   type |-> "contract_migration_pair",
   description |-> training_pair.description]

----------------------------------------------------------------------------
(* The batch functions: TrainingEmbedder::embed_contract_pairs,              *)
(* RAGSystem::bulk_insert_documents and sample_data::populate_sample_data    *)

MaxDocs == 2

EmbedContractPairs == "embed_contract_pairs"
BulkInsertDocuments == "bulk_insert_documents"
PopulateSampleData == "populate_sample_data"

\* The documents argument of bulk_insert_documents
DocumentInputs == {[text |-> t, metadata |-> m] : t \in Texts, m \in Metas}
DocumentSeqs == UNION {[1..n -> DocumentInputs] : n \in 0..MaxDocs}

\* sample_documents, by its first and its last entry
SampleDocuments ==
  <<[text |-> "ERC20 Token Implementation in ink!",
     metadata |-> [category |-> "ink_contract", language |-> "rust"]],
    [text |-> "Testing ink! contracts",
     metadata |-> [category |-> "ink_testing", language |-> "rust"]]>>

BatchNone == [ok |-> FALSE, returned |-> FALSE, success |-> FALSE, processed_pairs |-> 0,
              document_ids |-> <<>>, errors |-> <<>>, err |-> ""]

\* Ok(EmbeddingResult { success: errors.is_empty(), .. })
EmbeddingResult(n, ids, errs) ==
  [BatchNone EXCEPT !.ok = TRUE, !.returned = TRUE, !.success = (errs = <<>>),
                    !.processed_pairs = n, !.document_ids = ids, !.errors = errs]

\* Ok(document_ids) of bulk_insert_documents
BulkResult(ids) ==
  [BatchNone EXCEPT !.ok = TRUE, !.returned = TRUE, !.document_ids = ids]

\* Ok(()) of populate_sample_data
SampleResult == [BatchNone EXCEPT !.ok = TRUE, !.returned = TRUE]

\* Mutant: a failed discovery is taken for a discovery without pairs.
BatchErrSwallowed(e) == [BatchNone EXCEPT !.ok = TRUE, !.returned = TRUE, !.success = TRUE]

\* find_contract_pairs()? : the error of the discovery, as it is
BatchErr(e) == [BatchNone EXCEPT !.returned = TRUE, !.err = e]

\* The text and metadata the loop's add_document is called with for an item,
\* or that the training pair could not be made
ItemDocument(op, item) ==
  IF op = EmbedContractPairs
    THEN LET tp == CreateTrainingPair(item)
         IN  [ok |-> tp.ok, text |-> tp.combined_content,
              metadata |-> TrainingMetadata(tp)]
    ELSE [ok |-> TRUE, text |-> item.text, metadata |-> item.metadata]

EmbedError(stage, contract_type) == <<stage, contract_type>>

\* Mutant: the loop stops at the first item that fails.
NextIndexStopsOnError(idx, ok, n) == IF ok THEN idx + 1 ELSE n + 1

\* The loop goes on to the next item, whatever the item came to
NextIndex(idx, ok, n) == idx + 1

\* let match_result = self.contract_matcher.find_contract_pairs()?;
DiscoverReturned ==
  /\ bOp = EmbedContractPairs /\ bPc = "discover" /\ mPc = "done"
  /\ IF mRes.ok
       THEN /\ bDocs' = mRes.pairs
            /\ bIdx' = 1
            /\ bPc' = "loop"
            /\ bRes' = bRes
       ELSE /\ bPc' = "done"
            /\ bRes' = BatchErr(mRes.err)
            /\ UNCHANGED <<bDocs, bIdx, parseVars, formatVars>>
  /\ UNCHANGED <<bOp, document_ids, errors, processed_pairs, successful_inserts, logged,
                 attempts, ragVars, matchVars, parseVars, formatVars>>

\* One iteration of the loop: add_document for the item, and what the function
\* does with its result. (The arm of embed_contract_pairs for a training pair
\* that could not be made pushes an error and goes on; create_training_pair
\* only ever returns Ok.)
BatchItem ==
  /\ bPc = "loop" /\ bIdx <= Len(bDocs)
  /\ ItemDocument(bOp, bDocs[bIdx]).ok
  /\ LET doc == ItemDocument(bOp, bDocs[bIdx])
         point == DocumentPoint(nextId + 1, doc.text, doc.metadata)
     IN  \E ok \in IndexOutcomes(regular_collection) :
           /\ nextId' = nextId + 1
           /\ coll' = IF ok THEN UpsertPoints(regular_collection, point) ELSE coll
           /\ acked' = IF ok THEN acked \cup {point} ELSE acked
           /\ supplied' = IF ok
                            THEN supplied \cup {[id |-> point.id, text |-> doc.text,
                                                 metadata |-> doc.metadata]}
                            ELSE supplied
           /\ attempts' = Append(attempts, [item |-> bIdx, point |-> point, ok |-> ok])
           /\ document_ids' =
                IF ok /\ bOp \in {EmbedContractPairs, BulkInsertDocuments}
                  THEN Append(document_ids, point.id) ELSE document_ids
           /\ processed_pairs' =
                IF ok /\ bOp = EmbedContractPairs
                  THEN processed_pairs + 1 ELSE processed_pairs
           /\ successful_inserts' =
                IF ok /\ bOp = PopulateSampleData
                  THEN successful_inserts + 1 ELSE successful_inserts
           /\ errors' =
                IF ~ok /\ bOp = EmbedContractPairs
                  THEN Append(errors, EmbedError("Failed to embed",
                                                 bDocs[bIdx].contract_type))
                  ELSE errors
           /\ logged' =
                IF ~ok /\ bOp \in {BulkInsertDocuments, PopulateSampleData}
                  THEN Append(logged, bIdx) ELSE logged
           /\ bIdx' = NextIndex(bIdx, ok, Len(bDocs))
  /\ UNCHANGED <<bOp, bPc, bDocs, bRes, coll0, mainPc, initRes, crossScore, crossCache,
                 served, call, matchVars, parseVars, formatVars>>

\* The loop is over: the function returns
BatchReturn ==
  /\ bPc = "loop" /\ bIdx > Len(bDocs)
  /\ bPc' = "done"
  /\ bRes' = CASE bOp = EmbedContractPairs ->
                    EmbeddingResult(processed_pairs, document_ids, errors)
               [] bOp = BulkInsertDocuments -> BulkResult(document_ids)
               [] OTHER -> SampleResult
  /\ UNCHANGED <<bOp, bDocs, bIdx, document_ids, errors, processed_pairs,
                 successful_inserts, logged, attempts, ragVars, matchVars, parseVars, formatVars>>

----------------------------------------------------------------------------
(* SolidityParser::parse_contract *)

\* A Solidity text is a sequence of tokens, each a run of characters: the
\* characters of the keyword, other word characters, white space, and
\* characters that are neither.
Keyword == "contract"
WordTokens == {Keyword, "sub", "Foo"}
SpaceTokens == {" ", "\n"}
CommentStart == "//"
LineEnd == "\n"
SolTokens == WordTokens \cup SpaceTokens \cup {CommentStart, "{"}

MaxTokens == 5
SolTexts == UNION {[1..n -> SolTokens] : n \in 0..MaxTokens}

\* The end of the longest run of tokens of the set S that starts at i (i - 1
\* if text[i] is not in S)
RECURSIVE RunEnd(_, _, _)
RunEnd(text, i, S) ==
  IF i <= Len(text) /\ text[i] \in S THEN RunEnd(text, i + 1, S) ELSE i - 1

\* The regular expression contract\s+(\w+) matches at token i: the characters
\* "contract", then white space, then word characters
ContractReMatchesAt(text, i) ==
  /\ text[i] = Keyword
  /\ RunEnd(text, i + 1, SpaceTokens) >= i + 1
  /\ RunEnd(text, RunEnd(text, i + 1, SpaceTokens) + 1, WordTokens)
       > RunEnd(text, i + 1, SpaceTokens)

\* captures.get(1): the word characters after the white space, all of them
CapturedName(text, i) ==
  LET from == RunEnd(text, i + 1, SpaceTokens) + 1
  IN  SubSeq(text, from, RunEnd(text, from, WordTokens))

NoType == [some |-> FALSE, v |-> <<>>]
SomeType(t) == [some |-> TRUE, v |-> t]

ParseOk(name) ==
  [ok |-> TRUE, name |-> name, err |-> "", functions |-> <<>>,
   state_variables |-> <<>>, events |-> <<>>, custom_errors |-> <<>>]
ParseErr(e) ==
  [ok |-> FALSE, name |-> <<>>, err |-> e, functions |-> <<>>,
   state_variables |-> <<>>, events |-> <<>>, custom_errors |-> <<>>]
NotParsed == ParseErr("not returned")

\* parse_contract_name: contract_re.captures(content), the leftmost match
ParseContractName(text) ==
  LET matches == {i \in 1..Len(text) : ContractReMatchesAt(text, i)}
  IN  IF matches = {}
        THEN ParseErr("No contract name found")
        ELSE ParseOk(CapturedName(text, CHOOSE i \in matches : \A j \in matches : i <= j))

\* The patterns of the four lists, over texts in which every word is one
\* token (the texts of SolTexts hold none of the words these patterns need).
Punctuation == {"(", ")", "{", "}", ";", ",", "=>"}
IsWord(t) == t \notin (SpaceTokens \cup Punctuation \cup {CommentStart})
Visibilities == {"public", "private", "internal", "external"}
StateVisibilities == {"public", "private", "internal"}
Mutabilities == {"view", "pure", "payable"}
\* The words of the model in which the characters of "indexed" occur
WordsHoldingIndexed == {"indexed", "indexedOwner"}

At(text, i, t) == i >= 1 /\ i <= Len(text) /\ text[i] = t
InAt(text, i, S) == i >= 1 /\ i <= Len(text) /\ text[i] \in S
WordAt(text, i) == i >= 1 /\ i <= Len(text) /\ IsWord(text[i])

\* \s* from token i on: the first token at or after i that is not white space
SkipSpaces(text, i) == RunEnd(text, i, SpaceTokens) + 1

\* The first token t at or after from, 0 when there is none
FirstAt(text, from, t) ==
  LET S == {k \in from..Len(text) : text[k] = t}
  IN  IF S = {} THEN 0 ELSE CHOOSE k \in S : \A m \in S : k <= m

\* The least position of a non-empty set of positions
Least(S) == CHOOSE k \in S : \A m \in S : k <= m

\* The pieces of a pattern. Each is matched at a position and gives the
\* position after the piece, 0 when it does not match there or when the
\* pieces before it did not match (position 0).
Literal(text, i, t) == IF At(text, i, t) THEN i + 1 ELSE 0
OneOf(text, i, S) == IF InAt(text, i, S) THEN i + 1 ELSE 0
Word(text, i) == IF WordAt(text, i) THEN i + 1 ELSE 0
\* \s*
Spaces0(text, i) == IF i = 0 THEN 0 ELSE SkipSpaces(text, i)
\* \s+
Spaces1(text, i) == IF InAt(text, i, SpaceTokens) THEN SkipSpaces(text, i) ELSE 0

NoMatch == [end |-> 0]

\* \s+(public|private|internal)\s+(\w+); from position p on: where the
\* visibility and the name are, and the position after the semicolon
DeclaredVisibilityAt(text, p) == Spaces1(text, p)
DeclaredNameAt(text, p) ==
  Spaces1(text, OneOf(text, DeclaredVisibilityAt(text, p), StateVisibilities))
DeclaredEnd(text, p) == Literal(text, Word(text, DeclaredNameAt(text, p)), ";")

\* var_re, (\w+)\s+(public|private|internal)\s+(\w+); matched from token i
VarCaptures(text, i) ==
  IF DeclaredEnd(text, Word(text, i)) # 0
    THEN [end |-> DeclaredEnd(text, Word(text, i)) - 1,
          variable |->
            [name |-> text[DeclaredNameAt(text, Word(text, i))],
             type_name |-> <<text[i]>>,
             visibility |-> text[DeclaredVisibilityAt(text, Word(text, i))],
             is_mapping |-> FALSE, key_type |-> NoType, value_type |-> NoType]]
    ELSE NoMatch

\* format!("mapping({} => {})", key, value)
MappingType(key, value) == <<"mapping(">> \o key \o <<" => ">> \o value \o <<")">>

\* mapping\((\w+)\s*=>\s* matched from token i: the position of what stands
\* for the value type (the key is at i + 2)
MappingValueAt(text, i) ==
  Spaces0(text,
    Literal(text,
      Spaces0(text, Word(text, Literal(text, Literal(text, i, "mapping"), "("))),
      "=>"))

\* Mutant: any number of closing brackets may follow the value type.
MappingCloseLoose(text, value_at) ==
  IF Literal(text, Word(text, value_at), ")") # 0
    THEN RunEnd(text, value_at + 1, {")"}) + 1 ELSE 0

\* (\w+)\) at the value type: the position after the closing bracket
MappingClose(text, value_at) == Literal(text, Word(text, value_at), ")")

\* mapping_re, mapping\((\w+)\s*=>\s*(\w+)\)\s+(public|private|internal)\s+(\w+);
MappingCaptures(text, i) ==
  IF DeclaredEnd(text, MappingClose(text, MappingValueAt(text, i))) # 0
    THEN [end |-> DeclaredEnd(text, MappingClose(text, MappingValueAt(text, i))) - 1,
          variable |->
            [name |->
               text[DeclaredNameAt(text, MappingClose(text, MappingValueAt(text, i)))],
             type_name |->
               MappingType(<<text[i + 2]>>, <<text[MappingValueAt(text, i)]>>),
             visibility |->
               text[DeclaredVisibilityAt(text,
                                         MappingClose(text, MappingValueAt(text, i)))],
             is_mapping |-> TRUE,
             key_type |-> SomeType(<<text[i + 2]>>),
             value_type |-> SomeType(<<text[MappingValueAt(text, i)]>>)]]
    ELSE NoMatch

\* mapping\((\w+)\s*=>\s*mapping\((\w+)\s*=>\s*(\w+)\)\) matched from token i:
\* the position after the second closing bracket
NestedMappingClose(text, i) ==
  Literal(text,
    Literal(text, Word(text, MappingValueAt(text, MappingValueAt(text, i))), ")"),
    ")")

\* nested_mapping_re,
\* mapping\((\w+)\s*=>\s*mapping\((\w+)\s*=>\s*(\w+)\)\)\s+(public|private|internal)\s+(\w+);
NestedMappingCaptures(text, i) ==
  IF DeclaredEnd(text, NestedMappingClose(text, i)) # 0
    THEN [end |-> DeclaredEnd(text, NestedMappingClose(text, i)) - 1,
          variable |->
            [name |-> text[DeclaredNameAt(text, NestedMappingClose(text, i))],
             type_name |->
               MappingType(<<text[i + 2]>>,
                 MappingType(<<text[MappingValueAt(text, i) + 2]>>,
                             <<text[MappingValueAt(text, MappingValueAt(text, i))]>>)),
             visibility |-> text[DeclaredVisibilityAt(text, NestedMappingClose(text, i))],
             is_mapping |-> TRUE,
             key_type |-> SomeType(<<text[i + 2]>>),
             value_type |->
               SomeType(MappingType(<<text[MappingValueAt(text, i) + 2]>>,
                          <<text[MappingValueAt(text, MappingValueAt(text, i))]>>))]]
    ELSE NoMatch

\* str::split on the tokens of seps: the pieces between them
RECURSIVE Split(_, _)
Split(s, seps) ==
  LET idx == {i \in 1..Len(s) : s[i] \in seps}
  IN  IF idx = {} THEN <<s>>
      ELSE LET i == CHOOSE k \in idx : \A j \in idx : k <= j
           IN  <<SubSeq(s, 1, i - 1)>> \o Split(SubSeq(s, i + 1, Len(s)), seps)

IsNonEmptyPart(part) == Len(part) > 0

\* str::split_whitespace: the runs of tokens between white space
SplitWhitespace(s) == SelectSeq(Split(s, SpaceTokens), IsNonEmptyPart)

\* str::trim
Trim(s) ==
  LET keep == {k \in 1..Len(s) : s[k] \notin SpaceTokens}
  IN  IF keep = {} THEN <<>>
      ELSE SubSeq(s, CHOOSE k \in keep : \A m \in keep : k <= m,
                     CHOOSE k \in keep : \A m \in keep : k >= m)

\* parts.len() >= 2
HasTypeAndName(param) == Len(SplitWhitespace(param)) >= 2

\* parse_parameters: the loop body for a piece that is pushed
LastPart(parts) == parts[Len(parts)]

Parameter(param) ==
  [name |-> LastPart(SplitWhitespace(param)), type_name |-> SplitWhitespace(param)[1],
   is_indexed |-> FALSE]

ParseParameters(params_str) ==
  LET kept == SelectSeq(Split(params_str, {","}), HasTypeAndName)
  IN  [k \in 1..Len(kept) |-> Parameter(kept[k])]

\* param.contains("indexed"): the characters occur somewhere in the piece
ContainsIndexed(param) == \E k \in 1..Len(param) : param[k] \in WordsHoldingIndexed

\* parse_event_parameters: the loop body for a piece that is pushed
EventParameter(param) ==
  [name |-> LastPart(SplitWhitespace(param)), type_name |-> SplitWhitespace(param)[1],
   is_indexed |-> ContainsIndexed(param)]

ParseEventParameters(params_str) ==
  LET kept == SelectSeq(Split(params_str, {","}), HasTypeAndName)
  IN  [k \in 1..Len(kept) |-> EventParameter(kept[k])]

\* constructor\s*\( matched from token i: the position of the first token of
\* the parameters
ConstructorParamsAt(text, i) ==
  Literal(text, Spaces0(text, Literal(text, i, "constructor")), "(")

\* \)\s*\{ matched from token j: the position of the first token of the body
ConstructorBodyAt(text, j) == Literal(text, Spaces0(text, Literal(text, j, ")")), "{")

\* The closing brackets the lazy parameters of constructor_re can end before
ConstructorClosers(text, i) ==
  {j \in ConstructorParamsAt(text, i)..Len(text) :
     /\ ConstructorBodyAt(text, j) # 0
     /\ FirstAt(text, ConstructorBodyAt(text, j), "}") # 0}

ConstructorFunction(text, i, j) ==
  [name |-> "constructor",
   parameters |-> ParseParameters(SubSeq(text, ConstructorParamsAt(text, i), j - 1)),
   return_type |-> NoType, visibility |-> "public", mutability |-> None,
   body |-> SubSeq(text, ConstructorBodyAt(text, j),
                   FirstAt(text, ConstructorBodyAt(text, j), "}") - 1)]

\* constructor_re, (?s)constructor\s*\((.*?)\)\s*\{(.*?)\} matched from token i
ConstructorCaptures(text, i) ==
  IF ConstructorParamsAt(text, i) # 0 /\ ConstructorClosers(text, i) # {}
    THEN [end |-> FirstAt(text,
                          ConstructorBodyAt(text, Least(ConstructorClosers(text, i))),
                          "}"),
          function |-> ConstructorFunction(text, i, Least(ConstructorClosers(text, i)))]
    ELSE NoMatch

\* The closure computing return_type: the captured text trimmed, up to its
\* first space
ReturnType(captured) ==
  IF FirstAt(Trim(captured), 1, " ") # 0
    THEN SubSeq(Trim(captured), 1, FirstAt(Trim(captured), 1, " ") - 1)
    ELSE Trim(captured)

\* function_re after the parameters, from the closing bracket at token j:
\* \)\s+(public|private|internal|external)
FunctionVisibilityAt(text, j) == Spaces1(text, Literal(text, j, ")"))
AfterVisibility(text, j) == OneOf(text, FunctionVisibilityAt(text, j), Visibilities)

\* (?:\s+(view|pure|payable))?
MutabilityAt(text, j) == Spaces1(text, AfterVisibility(text, j))
HasMutability(text, j) == InAt(text, MutabilityAt(text, j), Mutabilities)
AfterMutability(text, j) ==
  IF HasMutability(text, j) THEN MutabilityAt(text, j) + 1 ELSE AfterVisibility(text, j)

\* \s*(?:returns\s*\(([^)]*)\))?
ReturnsOpenAt(text, j) ==
  Spaces0(text, Literal(text, Spaces0(text, AfterMutability(text, j)), "returns"))
ReturnsCloseAt(text, j) ==
  IF At(text, ReturnsOpenAt(text, j), "(")
    THEN FirstAt(text, ReturnsOpenAt(text, j) + 1, ")") ELSE 0
AfterReturns(text, j) ==
  IF ReturnsCloseAt(text, j) # 0
    THEN ReturnsCloseAt(text, j) + 1 ELSE AfterMutability(text, j)

\* \s*\{(.*?)\}: the first token of the body, and the bracket that closes it
FunctionBodyAt(text, j) == Literal(text, Spaces0(text, AfterReturns(text, j)), "{")
FunctionBodyEnd(text, j) ==
  IF FunctionBodyAt(text, j) # 0 THEN FirstAt(text, FunctionBodyAt(text, j), "}") ELSE 0

\* function\s+(\w+)\s*\( matched from token i: the name, and the first token
\* of the parameters
FunctionNameAt(text, i) == Spaces1(text, Literal(text, i, "function"))
FunctionParamsAt(text, i) ==
  Literal(text, Spaces0(text, Word(text, FunctionNameAt(text, i))), "(")

\* The closing brackets the lazy parameters of function_re can end before
FunctionClosers(text, i) ==
  {j \in FunctionParamsAt(text, i)..Len(text) : FunctionBodyEnd(text, j) # 0}

Function(text, i, j) ==
  [name |-> text[FunctionNameAt(text, i)],
   parameters |-> ParseParameters(SubSeq(text, FunctionParamsAt(text, i), j - 1)),
   return_type |->
     IF ReturnsCloseAt(text, j) # 0
       THEN SomeType(ReturnType(SubSeq(text, ReturnsOpenAt(text, j) + 1,
                                       ReturnsCloseAt(text, j) - 1)))
       ELSE NoType,
   visibility |-> text[FunctionVisibilityAt(text, j)],
   mutability |-> IF HasMutability(text, j) THEN Some(text[MutabilityAt(text, j)])
                  ELSE None,
   body |-> SubSeq(text, FunctionBodyAt(text, j), FunctionBodyEnd(text, j) - 1)]

\* function_re, matched from token i: the parameters end at the first closing
\* bracket after which the rest of the pattern matches
FunctionCaptures(text, i) ==
  IF FunctionParamsAt(text, i) # 0 /\ FunctionClosers(text, i) # {}
    THEN [end |-> FunctionBodyEnd(text, Least(FunctionClosers(text, i))),
          function |-> Function(text, i, Least(FunctionClosers(text, i)))]
    ELSE NoMatch

\* keyword\s+(\w+)\s*\( matched from token i: the name, and the first token
\* after the bracket
NamedAt(text, i, keyword) == Spaces1(text, Literal(text, i, keyword))
NamedParamsAt(text, i, keyword) ==
  Literal(text, Spaces0(text, Word(text, NamedAt(text, i, keyword))), "(")

\* (.*?)\); from there: the closing brackets a semicolon follows, on the line
NamedClosers(text, i, keyword) ==
  {j \in NamedParamsAt(text, i, keyword)..Len(text) :
     /\ Literal(text, Literal(text, j, ")"), ";") # 0
     /\ \A k \in NamedParamsAt(text, i, keyword)..(j - 1) : text[k] # LineEnd}

\* event_re, event\s+(\w+)\s*\((.*?)\); matched from token i
EventCaptures(text, i) ==
  IF NamedParamsAt(text, i, "event") # 0 /\ NamedClosers(text, i, "event") # {}
    THEN [end |-> Least(NamedClosers(text, i, "event")) + 1,
          event |->
            [name |-> text[NamedAt(text, i, "event")],
             parameters |->
               ParseEventParameters(
                 SubSeq(text, NamedParamsAt(text, i, "event"),
                        Least(NamedClosers(text, i, "event")) - 1))]]
    ELSE NoMatch

\* error_re, error\s+(\w+)\s*\(.*?\); matched from token i
ErrorCaptures(text, i) ==
  IF NamedParamsAt(text, i, "error") # 0 /\ NamedClosers(text, i, "error") # {}
    THEN [end |-> Least(NamedClosers(text, i, "error")) + 1,
          name |-> text[NamedAt(text, i, "error")]]
    ELSE NoMatch

Captures(re, text, i) ==
  CASE re = "var_re" -> VarCaptures(text, i)
    [] re = "mapping_re" -> MappingCaptures(text, i)
    [] re = "nested_mapping_re" -> NestedMappingCaptures(text, i)
    [] re = "constructor_re" -> ConstructorCaptures(text, i)
    [] re = "function_re" -> FunctionCaptures(text, i)
    [] re = "event_re" -> EventCaptures(text, i)
    [] re = "error_re" -> ErrorCaptures(text, i)

\* The positions from i on at which the pattern matches
MatchStarts(re, text, i) == {k \in i..Len(text) : Captures(re, text, k).end # 0}

\* Regex::captures_iter from token i on: the matches from left to right, each
\* search starting where the match before ended
RECURSIVE CapturesIter(_, _, _)
RECURSIVE CapturesFrom(_, _, _)
CapturesFrom(re, text, captures) ==
  <<captures>> \o CapturesIter(re, text, captures.end + 1)

CapturesIter(re, text, i) ==
  IF MatchStarts(re, text, i) = {} THEN <<>>
  ELSE CapturesFrom(re, text, Captures(re, text, Least(MatchStarts(re, text, i))))

\* The variables, functions, events and names of a sequence of matches
Variables(all) == [k \in 1..Len(all) |-> all[k].variable]
Functions(all) == [k \in 1..Len(all) |-> all[k].function]
Events(all) == [k \in 1..Len(all) |-> all[k].event]
Names(all) == [k \in 1..Len(all) |-> all[k].name]

\* parse_state_variables: the plain variables, then the mappings, then the
\* nested mappings
ParseStateVariables(text) ==
  Variables(CapturesIter("var_re", text, 1) \o CapturesIter("mapping_re", text, 1)
              \o CapturesIter("nested_mapping_re", text, 1))

\* parse_functions: the first constructor, then the functions
ParseFunctions(text) ==
  Functions(Take(CapturesIter("constructor_re", text, 1), 1)
              \o CapturesIter("function_re", text, 1))

ParseEvents(text) == Events(CapturesIter("event_re", text, 1))

ParseCustomErrors(text) == Names(CapturesIter("error_re", text, 1))

\* parse_contract: the name, then the four lists; only the name can fail
\* (the other steps fail on a malformed pattern alone, and the patterns are
\* constants)
SolidityContract(text) ==
  LET contract_name == ParseContractName(text)
  IN  IF contract_name.ok
        THEN [contract_name EXCEPT
                !.state_variables = ParseStateVariables(text),
                !.functions = ParseFunctions(text),
                !.events = ParseEvents(text),
                !.custom_errors = ParseCustomErrors(text)]
        ELSE contract_name

ParseContract ==
  /\ parsed = NotParsed
  /\ parsed' = SolidityContract(parseContent)
  /\ UNCHANGED <<parseContent, declarations, ragVars, matchVars, batchVars, formatVars>>

\* format_code on a content
FormatCodeCall ==
  /\ formatted = NotFormatted
  /\ formatted' = Formatted(FormatCode(codeContent))
  /\ UNCHANGED <<codeContent, ragVars, matchVars, batchVars, parseVars>>

----------------------------------------------------------------------------
(* Specifications *)

RagIdle ==
  /\ coll = [c \in Collections |-> Absent]
  /\ coll0 = coll
  /\ mainPc = <<"serving", "">>
  /\ initRes = "none"
  /\ crossScore = 0
  /\ crossCache = 0
  /\ nextId = 0
  /\ served = 0
  /\ call = [p \in Procs |-> Idle]
  /\ acked = {}
  /\ supplied = {}

MatchIdle ==
  /\ fsDir = {}
  /\ fsInk = {}
  /\ mPc = "done"
  /\ contracts = {}
  /\ todo = {}
  /\ processed = <<>>
  /\ readFailed = FALSE
  /\ pairs = <<>>
  /\ unmatched_solidity = <<>>
  /\ unmatched_ink = <<>>
  /\ mRes = MatchNone

BatchIdle ==
  /\ bOp = "none"
  /\ bPc = "idle"
  /\ bDocs = <<>>
  /\ bIdx = 0
  /\ document_ids = <<>>
  /\ errors = <<>>
  /\ processed_pairs = 0
  /\ successful_inserts = 0
  /\ logged = <<>>
  /\ attempts = <<>>
  /\ bRes = BatchNone

ParseIdle ==
  /\ parseContent = <<>>
  /\ parsed = ParseErr("")
  /\ declarations = <<>>

FormatIdle ==
  /\ codeContent = <<>>
  /\ formatted = Formatted(<<>>)

\* The service: main() sets the collections up, then requests are served.
Init ==
  /\ coll \in [Collections -> UNION {PreStates(c) : c \in Collections}]
  /\ \A c \in Collections : coll[c] \in PreStates(c)
  /\ coll0 = coll
  /\ mainPc = <<"list", regular_collection>>
  /\ initRes = "none"
  /\ crossScore \in {-50, 50}
  /\ crossCache \in {940, 951}
  /\ nextId = 0
  /\ served = 0
  /\ call = [p \in Procs |-> Idle]
  /\ acked = {}
  /\ supplied = {}
  /\ MatchIdle
  /\ BatchIdle
  /\ ParseIdle
  /\ FormatIdle

Next ==
  \/ \E c \in Collections : ListCollections(c)
  \/ \E c \in Collections : DeleteCollection(c)
  \/ \E c \in Collections : CreateCollection(c)
  \/ \E p \in Sequential, t \in Texts, m \in Metas : AddDocumentStart(p, t, m)
  \/ \E p \in Sequential : AddDocumentUpsert(p)
  \/ \E p \in Sequential, q \in Texts, k \in Ks, th \in Thresholds : SearchStart(p, q, k, th)
  \/ \E p \in Sequential : SearchStep(p)
  \/ \E p \in Sequential, q \in Texts, k \in Ks : AnswerStart(p, q, k)
  \/ \E p \in Sequential : AnswerSearch(p)
  \/ \E p \in Sequential : AnswerGenerate(p)
  \/ \E p \in Sequential, q \in Texts, k \in Ks : StructuredStart(p, q, k)
  \/ \E p \in Sequential : StructuredSearch(p)
  \/ \E p \in Sequential, q \in Texts : SearchCacheStart(p, q)
  \/ \E p \in Sequential : SearchCacheStep(p)
  \/ \E p \in Sequential, q \in Texts, a \in Answers : AddToCacheStart(p, q, a)
  \/ \E p \in Sequential : AddToCacheUpsert(p)
  \/ \E p \in Sequential : Return(p)

Spec == Init /\ [][Next]_vars

\* One call of ContractMatcher::find_contract_pairs on some filesystem.
InitMatch ==
  /\ RagIdle
  /\ BatchIdle
  /\ ParseIdle
  /\ FormatIdle
  /\ fsDir \in SUBSET DirUniverse
  /\ fsInk \in SUBSET InkUniverse
  /\ mPc = "list"
  /\ contracts = {}
  /\ todo = {}
  /\ processed = <<>>
  /\ readFailed = FALSE
  /\ pairs = <<>>
  /\ unmatched_solidity = <<>>
  /\ unmatched_ink = <<>>
  /\ mRes = MatchNone

NextMatch ==
  \/ ListSources
  \/ \E c \in contracts : ProcessMatched(c)
  \/ \E c \in contracts : ProcessUnmatched(c)
  \/ FindUnmatchedInk

SpecMatch == InitMatch /\ [][NextMatch]_vars

\* The filesystems the ingestion of contract pairs is followed on
IngestDirUniverse == {<<"Flipper", "sol">>, <<"SimpleStorage", "sol">>}
IngestInkUniverse == {"flipper/lib.rs", "contract-storage/lib.rs"}

\* The index as main() may leave it: both collections created, or none there.
ServingStates ==
  {[c \in Collections |-> Created(c)], [c \in Collections |-> Absent]}

BatchLocalsFresh ==
  /\ bIdx = 1
  /\ document_ids = <<>>
  /\ errors = <<>>
  /\ processed_pairs = 0
  /\ successful_inserts = 0
  /\ logged = <<>>
  /\ attempts = <<>>
  /\ bRes = BatchNone

\* One call of embed_contract_pairs, at its call of find_contract_pairs
InitIngest ==
  /\ bOp = EmbedContractPairs /\ bPc = "discover" /\ bDocs = <<>>
  /\ fsDir \in SUBSET IngestDirUniverse
  /\ fsInk \in SUBSET IngestInkUniverse
  /\ mPc = "list"

\* One call of bulk_insert_documents or of populate_sample_data, at its loop
InitBulk ==
  /\ \/ bOp = BulkInsertDocuments /\ bDocs \in DocumentSeqs
     \/ bOp = PopulateSampleData /\ bDocs = SampleDocuments
  /\ bPc = "loop"
  /\ fsDir = {} /\ fsInk = {}
  /\ mPc = "done"

InitBatch ==
  /\ coll \in ServingStates
  /\ coll0 = coll
  /\ mainPc = <<"serving", "">>
  /\ initRes = IF coll[regular_collection].exists THEN "ok" ELSE "err"
  /\ crossScore = 50 /\ crossCache = 940
  /\ nextId = 0
  /\ served = 0
  /\ call = [p \in Procs |-> Idle]
  /\ acked = {}
  /\ supplied = {}
  /\ contracts = {}
  /\ todo = {}
  /\ processed = <<>>
  /\ readFailed = FALSE
  /\ pairs = <<>>
  /\ unmatched_solidity = <<>>
  /\ unmatched_ink = <<>>
  /\ mRes = MatchNone
  /\ BatchLocalsFresh
  /\ ParseIdle
  /\ FormatIdle
  /\ (InitIngest \/ InitBulk)

NextBatch ==
  \/ ListSources
  \/ \E c \in contracts : ProcessMatched(c)
  \/ \E c \in contracts : ProcessUnmatched(c)
  \/ FindUnmatchedInk
  \/ DiscoverReturned
  \/ BatchItem
  \/ BatchReturn

SpecBatch == InitBatch /\ [][NextBatch]_vars

\* One call of SolidityParser::parse_contract on some text.
InitParse ==
  /\ RagIdle
  /\ MatchIdle
  /\ BatchIdle
  /\ parseContent \in SolTexts
  /\ parsed = NotParsed
  /\ declarations = <<>>
  /\ FormatIdle

NextParse == ParseContract

SpecParse == InitParse /\ [][NextParse]_vars

\* parse_contract on contracts written from declarations: functions with and
\* without a visibility, a constructor, events, an error, and state variables
\* of the three forms.
FunctionDecl(name, params, vis, mut, ret) ==
  [kind |-> "function", name |-> name, params |-> params, vis |-> vis,
   mut |-> mut, ret |-> ret, types |-> <<>>]
ConstructorDecl ==
  [kind |-> "constructor", name |-> "constructor", params |-> <<>>, vis |-> "",
   mut |-> "", ret |-> <<>>, types |-> <<>>]
EventDecl(name, params) ==
  [kind |-> "event", name |-> name, params |-> params, vis |-> "",
   mut |-> "", ret |-> <<>>, types |-> <<>>]
ErrorDecl(name) ==
  [kind |-> "error", name |-> name, params |-> <<>>, vis |-> "",
   mut |-> "", ret |-> <<>>, types |-> <<>>]
PlainDecl(type, vis, name) ==
  [kind |-> "plain", name |-> name, params |-> <<>>, vis |-> vis,
   mut |-> "", ret |-> <<>>, types |-> <<type>>]
MappingDecl(key, value, vis, name) ==
  [kind |-> "mapping", name |-> name, params |-> <<>>, vis |-> vis,
   mut |-> "", ret |-> <<>>, types |-> <<key, value>>]
NestedMappingDecl(key, inner_key, value, vis, name) ==
  [kind |-> "nested", name |-> name, params |-> <<>>, vis |-> vis,
   mut |-> "", ret |-> <<>>, types |-> <<key, inner_key, value>>]

StateDeclKinds == {"plain", "mapping", "nested"}

FunctionDecls ==
  {FunctionDecl("foo", <<>>, "", "", <<>>),
   FunctionDecl("bar", <<>>, "public", "", <<>>),
   FunctionDecl("get", <<>>, "public", "view", <<"uint256">>),
   FunctionDecl("set", << <<"uint256", "v">> >>, "external", "", <<>>)}
EventDecls ==
  {EventDecl("Transfer", << <<"address", "indexed", "from">>, <<"uint256", "value">> >>),
   EventDecl("Approval", << <<"address", "indexedOwner">> >>)}
StateDecls ==
  {PlainDecl("uint256", "public", "totalSupply"),
   PlainDecl("string", "private", "name"),
   MappingDecl("address", "uint256", "public", "balanceOf"),
   NestedMappingDecl("address", "address", "uint256", "public", "allowance")}
Decls ==
  FunctionDecls \cup EventDecls \cup StateDecls
    \cup {ConstructorDecl, ErrorDecl("Unauthorized")}

\* The state of the contract of the parser's test
ERC20State ==
  <<PlainDecl("string", "public", "name"),
    PlainDecl("string", "public", "symbol"),
    PlainDecl("uint8", "public", "decimals"),
    PlainDecl("uint256", "public", "totalSupply"),
    MappingDecl("address", "uint256", "public", "balanceOf"),
    NestedMappingDecl("address", "address", "uint256", "public", "allowance")>>

MaxDecls == 2
DeclLists == UNION {[1..n -> Decls] : n \in 0..MaxDecls} \cup {ERC20State}

RECURSIVE Join(_, _)
Join(seqs, sep) ==
  IF Len(seqs) = 0 THEN <<>>
  ELSE IF Len(seqs) = 1 THEN seqs[1]
  ELSE seqs[1] \o sep \o Join(Tail(seqs), sep)

\* Words with one space between them
RenderWords(words) == Join([k \in 1..Len(words) |-> <<words[k]>>], <<" ">>)

RenderParams(params) ==
  Join([k \in 1..Len(params) |-> RenderWords(params[k])], <<",", " ">>)

RenderDecl(d) ==
  CASE d.kind = "function" ->
         <<"function", " ", d.name, "(">> \o RenderParams(d.params) \o <<")">>
           \o (IF d.vis # "" THEN <<" ", d.vis>> ELSE <<>>)
           \o (IF d.mut # "" THEN <<" ", d.mut>> ELSE <<>>)
           \o (IF d.ret # <<>>
                 THEN <<" ", "returns", " ", "(">> \o RenderWords(d.ret) \o <<")">>
                 ELSE <<>>)
           \o <<" ", "{", "}">>
    [] d.kind = "constructor" -> <<"constructor", "(", ")", " ", "{", "}">>
    [] d.kind = "event" ->
         <<"event", " ", d.name, "(">> \o RenderParams(d.params) \o <<")", ";">>
    [] d.kind = "error" -> <<"error", " ", d.name, "(", ")", ";">>
    [] d.kind = "plain" -> <<d.types[1], " ", d.vis, " ", d.name, ";">>
    [] d.kind = "mapping" ->
         <<"mapping", "(", d.types[1], " ", "=>", " ", d.types[2], ")",
           " ", d.vis, " ", d.name, ";">>
    [] d.kind = "nested" ->
         <<"mapping", "(", d.types[1], " ", "=>", " ",
           "mapping", "(", d.types[2], " ", "=>", " ", d.types[3], ")", ")",
           " ", d.vis, " ", d.name, ";">>

RenderContract(ds) ==
  <<"contract", " ", "Foo", " ", "{", "\n">>
    \o Join([k \in 1..Len(ds) |-> RenderDecl(ds[k])], <<"\n">>)
    \o <<"\n", "}">>

InitParseDecls ==
  /\ RagIdle
  /\ MatchIdle
  /\ BatchIdle
  /\ FormatIdle
  /\ declarations \in DeclLists
  /\ parseContent = RenderContract(declarations)
  /\ parsed = NotParsed

SpecParseDecls == InitParseDecls /\ [][NextParse]_vars

\* format_code alone, on contents of blank lines, then code lines, then blank
\* lines again.
MaxLeadingBlank == 5
MaxCodeLines == 52
MaxTrailingBlank == 1

CodeContents ==
  {[n \in 1..(b + c + t) |->
      Line(IF n <= b THEN "" ELSE IF n <= b + c THEN "code" ELSE "  ", n)] :
     b \in 0..MaxLeadingBlank, c \in 0..MaxCodeLines, t \in 0..MaxTrailingBlank}

InitFormat ==
  /\ RagIdle
  /\ MatchIdle
  /\ BatchIdle
  /\ ParseIdle
  /\ codeContent \in CodeContents
  /\ formatted = NotFormatted

NextFormat == FormatCodeCall

SpecFormat == InitFormat /\ [][NextFormat]_vars

\* The service over an index that start-up and earlier requests have filled:
\* requests one at a time, metadata with the keys of the payload among them.
StoredTexts == <<"flip", "transfer", "mint", "burn">>
StoredPoint(n) ==
  [id |-> 1 - n, vec |-> Embed(StoredTexts[n]),
   payload |-> DocumentPayload(StoredTexts[n], EmptyMap)]
StoredPoints == {StoredPoint(n) : n \in 1..Len(StoredTexts)}

RetrievalKs == {2, 4}
RetrievalMetas ==
  {EmptyMap, [file_path |-> "flipper/lib.rs"], [content |-> "transfer"]}

InitRetrieval ==
  /\ \E S \in {{}, {StoredPoint(1)}, StoredPoints} :
       coll = [c \in Collections |->
                 IF c = regular_collection
                   THEN [Created(c) EXCEPT !.points = S] ELSE Created(c)]
  /\ coll0 = coll
  /\ mainPc = <<"serving", "">>
  /\ initRes = "ok"
  /\ crossScore \in {-50, 50}
  /\ crossCache = 940
  /\ nextId = 0
  /\ served = 0
  /\ call = [p \in Procs |-> Idle]
  /\ acked = {}
  /\ supplied = {}
  /\ MatchIdle
  /\ BatchIdle
  /\ ParseIdle
  /\ FormatIdle

NextRetrieval ==
  \/ \E p \in Sequential, t \in Texts, m \in RetrievalMetas : AddDocumentStart(p, t, m)
  \/ \E p \in Sequential : AddDocumentUpsert(p)
  \/ \E p \in Sequential, q \in Texts, k \in RetrievalKs, th \in Thresholds :
       SearchStart(p, q, k, th)
  \/ \E p \in Sequential : SearchStep(p)
  \/ \E p \in Sequential, q \in Texts, k \in RetrievalKs : AnswerStart(p, q, k)
  \/ \E p \in Sequential : AnswerSearch(p)
  \/ \E p \in Sequential : AnswerGenerate(p)
  \/ \E p \in Sequential, q \in Texts, k \in RetrievalKs : StructuredStart(p, q, k)
  \/ \E p \in Sequential : StructuredSearch(p)
  \/ \E p \in Sequential : Return(p)

SpecRetrieval == InitRetrieval /\ [][NextRetrieval]_vars

\* The service with two requests in flight at a time: add_document, search and
\* answer calls in the slots of Procs, in every interleaving of their steps.
ConcurrentKs == {2}

NextConcurrent ==
  \/ \E c \in Collections : ListCollections(c)
  \/ \E c \in Collections : DeleteCollection(c)
  \/ \E c \in Collections : CreateCollection(c)
  \/ \E p \in Procs, t \in Texts : AddDocumentStart(p, t, EmptyMap)
  \/ \E p \in Procs : AddDocumentUpsert(p)
  \/ \E p \in Procs, q \in Texts, k \in ConcurrentKs : SearchStart(p, q, k, NoThreshold)
  \/ \E p \in Procs : SearchStep(p)
  \/ \E p \in Procs, q \in Texts, k \in ConcurrentKs : AnswerStart(p, q, k)
  \/ \E p \in Procs : AnswerSearch(p)
  \/ \E p \in Procs : AnswerGenerate(p)
  \/ \E p \in Procs : Return(p)

SpecConcurrent == Init /\ [][NextConcurrent]_vars

----------------------------------------------------------------------------
(* Properties of the retrieval engine, checked under Spec *)

AnswerOps == {"search", "answer", "structured", "add_document"}

CacheHit(query) ==
  /\ coll[cache_collection].exists
  /\ \E pt \in coll[cache_collection].points :
       Score(cache_collection, Embed(query), pt) >= CacheThreshold

GeneratorFailed(p) == call[p].genOut \in GenOutcomes \ {"ok"}

KnowledgeEmpty ==
  coll[regular_collection].exists /\ coll[regular_collection].points = {}

HasRequiredConfig(state, c) ==
  state.exists /\ state.dim = EmbeddingDim /\ state.metric = RequiredMetric(c)

\* The states right after create_regular_collection / create_cache_collection
\* returned Ok, before anything else touched the index.
JustEnsured(c) ==
  IF c = regular_collection
    THEN mainPc = <<"list", cache_collection>>
    ELSE mainPc = <<"serving", "">> /\ initRes = "ok" /\ served = 0

\* C1: in answer(query, k) the generator is never invoked while the cache
\* collection holds an entry whose score for the query is >= 0.95 (the cache is
\* searched first and a hit short-circuits generation).
C1_NoGenerationOnCacheHit ==
  [][\A p \in Procs :
       (call[p].op = "answer" /\ call'[p].gen > call[p].gen)
          => ~CacheHit(call[p].q)]_vars

\* C2: when answer(query, k) has returned after the generator succeeded, the
\* cache collection holds an entry for that query.
C2_AnswerWritesCache ==
  \A p \in Procs :
    (call[p].op = "answer" /\ IsDone(p) /\ call[p].genOut = "ok")
      => /\ coll[cache_collection].exists
         /\ \E pt \in coll[cache_collection].points : pt.payload["query"] = call[p].q

\* C3: when the generator fails and the knowledge search returned at least one
\* result, answer(query, k) returns Ok with a non-empty string built from the
\* assembled context blocks.
C3_FallbackFromContext ==
  \A p \in Procs :
    (call[p].op = "answer" /\ IsDone(p) /\ GeneratorFailed(p)
       /\ Len(call[p].results) > 0)
      => /\ call[p].res.kind = "text"
         /\ Len(call[p].res.text.ctx) > 0
         /\ call[p].res.text.ctx = call[p].ctx

\* C4: on an empty knowledge collection (and an index that answers), search
\* returns Ok with the empty list and answer returns Ok with the canned "not
\* enough information" message, without going to the generator, for every
\* query and k.
C4_EmptyIndex ==
  [][\A p \in Procs :
       (/\ call[p].pc = "search" /\ call'[p].pc # "search"
        /\ KnowledgeEmpty
        /\ call'[p].idxErr = 0)
          => /\ call'[p].pc = "done"
             /\ call[p].op = "search" => call'[p].res = OkResults(<<>>)
             /\ call[p].op = "answer" =>
                  (call'[p].res = OkText(NotEnoughInformation) /\ call'[p].gen = 0)]_vars

C4_Witness ==
  \E p \in Procs :
    /\ call[p].op = "answer" /\ IsDone(p) /\ KnowledgeEmpty
    /\ call[p].idxErr = 0
    /\ call[p].res = OkText(NotEnoughInformation)

\* C5 as stated: when create_*_collection has succeeded on a collection that
\* already existed with the required configuration, the collection and its
\* points are as they were.
C5_ExistingCollectionKept ==
  \A c \in Collections :
    (JustEnsured(c) /\ HasRequiredConfig(coll0[c], c)) => coll[c] = coll0[c]

\* C5, amended: whenever create_*_collection succeeds, the collection exists
\* with the required configuration (384, its metric) and holds no point,
\* whatever the collection was before: an existing collection is always
\* dropped and recreated.
C5_AlwaysRecreatedEmpty ==
  \A c \in Collections :
    JustEnsured(c) => (HasRequiredConfig(coll[c], c) /\ coll[c].points = {})

C5_Witness ==
  /\ JustEnsured(cache_collection)
  /\ \A c \in Collections :
       /\ HasRequiredConfig(coll0[c], c) /\ coll0[c].points # {}
       /\ coll[c].points = {}

\* C6: a failure of the index during search, answer, structuredAnswer or
\* addDocument ends the call with an error, after exactly one index request
\* (no retry) and without going on to the generator.
C6_IndexErrorPropagates ==
  \A p \in Procs :
    (call[p].op \in AnswerOps /\ call[p].idxErr > 0)
      => /\ IsDone(p)
         /\ call[p].res.kind = "err"
         /\ call[p].idxReq = 1 /\ call[p].idxErr = 1
         /\ call[p].gen = 0

C6_Witness ==
  \E p \in Procs :
    /\ call[p].op = "answer" /\ IsDone(p)
    /\ coll[regular_collection].exists /\ coll[regular_collection].points # {}
    /\ call[p].idxErr = 1 /\ call[p].res.kind = "err"

----------------------------------------------------------------------------
(* Properties of find_contract_pairs, checked under SpecMatch *)

Returned == mPc = "done" /\ mRes.ok

\* How often x occurs in the sequence xs
Occurrences(xs, x) == Cardinality({i \in 1..Len(xs) : xs[i] = x})

PairsOfType(ps, contract_name) ==
  {i \in 1..Len(ps) : ps[i].contract_type = contract_name}

PairPaths(ps) == [i \in 1..Len(ps) |-> ps[i].solidity_path]

Range(xs) == {xs[i] : i \in 1..Len(xs)}

\* The discovered source file whose stem is contract_name, if there is one
Discovered(contract_name) ==
  {c \in contracts : ExtractContractName(c) = contract_name}

\* C7: in every successful result each discovered source file occurs exactly
\* once in pairs and unmatched_solidity taken together.
C7_ExactlyOnePlace ==
  Returned =>
    \A c \in contracts :
      Occurrences(PairPaths(mRes.pairs), c)
        + Occurrences(mRes.unmatched_solidity, c) = 1

C7_Witness ==
  /\ Returned
  /\ Len(mRes.pairs) > 0 /\ Len(mRes.unmatched_solidity) > 1
  /\ contracts = {EntryPath(e) : e \in {x \in DirUniverse : x[2] = "sol"}}

C9_UnmatchedInk ==
  Returned =>
    /\ Range(mRes.unmatched_ink) =
         {FullInkPath(ContractMappings[id]) :
            id \in {n \in DOMAIN ContractMappings :
                      /\ ContractMappings[n] \in fsInk
                      /\ \A i \in 1..Len(mRes.pairs) : mRes.pairs[i].contract_type # n}}
    /\ \A t \in Range(mRes.unmatched_ink) : Occurrences(mRes.unmatched_ink, t) = 1

C9_Witness ==
  /\ Returned
  /\ Len(mRes.pairs) > 0
  /\ FullInkPath("erc20/lib.rs") \in Range(mRes.unmatched_ink)
  /\ \E i \in 1..Len(mRes.pairs) :
       mRes.pairs[i].ink_path \notin Range(mRes.unmatched_ink)

\* C10: once a read of a matched file has failed, find_contract_pairs has
\* returned an error that carries no pairs and no unmatched lists, and no
\* further source file is processed.
C10_ReadErrorAborts ==
  [][/\ readFailed' =>
          /\ mPc' = "done" /\ ~mRes'.ok
          /\ mRes'.pairs = <<>> /\ mRes'.unmatched_solidity = <<>>
          /\ mRes'.unmatched_ink = <<>>
     /\ readFailed => processed' = processed]_vars

C10_Witness ==
  /\ readFailed /\ mPc = "done" /\ ~mRes.ok
  /\ Len(pairs) > 0
  /\ todo # {}

----------------------------------------------------------------------------
(* Content of the emitted pairs, checked under SpecMatch *)

\* C11: every pair emitted by find_contract_pairs has non-empty Solidity
\* content and non-empty ink! content.
C11_PairContentNonEmpty ==
  \A i \in 1..Len(mRes.pairs) :
    /\ mRes.pairs[i].solidity_content # EmptyContent
    /\ mRes.pairs[i].ink_content # EmptyContent

----------------------------------------------------------------------------
(* Properties of the batch functions, checked under SpecBatch *)

Contains(xs, x) == \E i \in 1..Len(xs) : xs[i] = x

FailedAttempts == {j \in 1..Len(attempts) : ~attempts[j].ok}

IdsOfAttempts ==
  LET okAttempts == SelectSeq(attempts, LAMBDA a : a.ok)
  IN  [j \in 1..Len(okAttempts) |-> okAttempts[j].point.id]

\* The loop has made one add_document call per item, for the items in order
OneAttemptPerItemInOrder ==
  \A j \in 1..Len(attempts) :
    /\ attempts[j].item = j
    /\ attempts[j].point =
         DocumentPoint(attempts[j].point.id, ItemDocument(bOp, bDocs[j]).text,
                       ItemDocument(bOp, bDocs[j]).metadata)

\* C12: embed_contract_pairs attempts every discovered pair exactly once, in
\* order, with one upsert per pair, a failed pair does not keep the later
\* pairs from being attempted, and on return processed_pairs = |document_ids|,
\* processed_pairs + |errors| = the number of pairs, and success holds exactly
\* when errors is empty.
C12_IngestAccounting ==
  bOp = EmbedContractPairs =>
    /\ OneAttemptPerItemInOrder
    /\ Len(attempts) <= Len(mRes.pairs)
    /\ (bRes.returned /\ bRes.ok) =>
         /\ bDocs = mRes.pairs
         /\ Len(attempts) = Len(mRes.pairs)
         /\ bRes.document_ids = IdsOfAttempts
         /\ Len(bRes.errors) = Cardinality(FailedAttempts)
         /\ bRes.processed_pairs = Len(bRes.document_ids)
         /\ bRes.processed_pairs + Len(bRes.errors) = Len(mRes.pairs)
         /\ bRes.success <=> (bRes.errors = <<>>)

C12_Witness ==
  /\ bOp = EmbedContractPairs /\ bRes.returned /\ bRes.ok
  /\ Len(mRes.pairs) = 2
  /\ ~attempts[1].ok /\ attempts[2].ok
  /\ ~bRes.success /\ bRes.processed_pairs = 1

\* C13: bulk_insert_documents and populate_sample_data make one upsert per
\* document, in order, go on after a failed document, and return a report that
\* holds one error for every document that failed.
C13_BulkReportsFailures ==
  bOp \in {BulkInsertDocuments, PopulateSampleData} =>
    /\ OneAttemptPerItemInOrder
    /\ bRes.returned =>
         /\ Len(attempts) = Len(bDocs)
         /\ Len(bRes.errors) = Cardinality(FailedAttempts)

\* C20: create_training_pair has no failure path: for every discovered pair
\* it returns a training pair whose combined document holds the pair's
\* Solidity content, its ink! content and the migration notes, the notes of an
\* identifier without a template of its own name that identifier, and the
\* document the loop hands to add_document for the pair is that document.
C20_Synthesize ==
  bOp = EmbedContractPairs =>
    \A j \in 1..Len(bDocs) :
      LET pair == bDocs[j]
          tp == CreateTrainingPair(pair)
      IN  /\ tp.ok
          /\ Contains(tp.combined_content, SolidityCode(pair.solidity_content))
          /\ Contains(tp.combined_content, InkCode(pair.ink_content))
          /\ Contains(tp.combined_content, Notes(tp.migration_notes))
          /\ pair.contract_type \notin MigrationTemplates =>
               Contains(tp.migration_notes, Ident(pair.contract_type))
          /\ j <= Len(attempts) =>
               attempts[j].point.payload.content = tp.combined_content

C20_Witness ==
  /\ bOp = EmbedContractPairs
  /\ \E j \in 1..Len(attempts) :
       /\ bDocs[j].contract_type = "SimpleStorage"
       /\ bDocs[j].solidity_content # EmptyContent
       /\ attempts[j].ok
       /\ Contains(attempts[j].point.payload.content,
                   Notes(GenerateMigrationNotes("SimpleStorage")))
  /\ \E j \in 1..Len(attempts) : bDocs[j].contract_type = "Flipper"

----------------------------------------------------------------------------
(* The knowledge collection under add_document, checked under Spec *)

KnowledgePoints == coll[regular_collection].points
KnowledgeIds == {pt.id : pt \in KnowledgePoints}

\* The step in which the add_document call in slot p gets its answer
AddDocumentAnswered(p) ==
  /\ call[p].op = "add_document" /\ call[p].pc = "upsert"
  /\ call'[p].pc = "done"

\* C14: a successful add_document call adds exactly one point, under an id no
\* point of the collection had, and leaves every other point as it was; a
\* failed call and every other request leave the collection as it is; and once
\* initialize_collections has succeeded the collection holds as many points as
\* add_document calls have succeeded.
C14_AppendOnly ==
  [][/\ \A p \in Procs :
          AddDocumentAnswered(p) =>
            IF call'[p].res.kind = "id"
              THEN /\ call'[p].res.id \notin KnowledgeIds
                   /\ coll'[regular_collection].points =
                        KnowledgePoints \cup
                          {[id |-> call'[p].res.id, vec |-> Embed(call[p].q),
                            payload |-> DocumentPayload(call[p].q, call[p].meta)]}
                   /\ Cardinality(coll'[regular_collection].points) =
                        Cardinality(KnowledgePoints) + 1
              ELSE coll'[regular_collection] = coll[regular_collection]
     /\ (Serving /\ \A p \in Procs : ~AddDocumentAnswered(p)) =>
          coll'[regular_collection] = coll[regular_collection]
     /\ (Serving' /\ initRes' = "ok") =>
          Cardinality(coll'[regular_collection].points) = Cardinality(acked')]_vars

C14_Witness ==
  /\ initRes = "ok"
  /\ Cardinality(KnowledgePoints) = 2
  /\ \A pt \in KnowledgePoints : pt.payload = DocumentPayload("flip", EmptyMap)
  /\ \E p \in Procs : call[p].op = "add_document" /\ call[p].res = OkId(2)

----------------------------------------------------------------------------
(* Requests in flight together, checked under SpecConcurrent *)

\* C15: in every interleaving of add_document, search and answer calls, the
\* document of every add_document call that returned an id is in the knowledge
\* collection, as it was written, from the call's return on.
C15_NoLostWrite ==
  \A pt \in acked : pt \in KnowledgePoints

C15_Witness ==
  /\ call["p1"].op = "add_document" /\ call["p1"].pc = "upsert"
  /\ call["p2"].op = "add_document" /\ call["p2"].pc = "done"
  /\ call["p2"].id > call["p1"].id
  /\ call["p2"].res = OkId(call["p2"].id)
  /\ \E pt \in acked : pt.id = call["p2"].id

InFlight == {p \in Procs : ~IsIdle(p)}

\* C16: initialize_collections runs once, as a start-up step: while it runs no
\* request is in flight and none has been served, a request is in flight only
\* after it has finished (with success or with an error), and it is not
\* entered again.
C16_InitBeforeRequests ==
  [][/\ mainPc' # mainPc => (InFlight = {} /\ served = 0 /\ ~Serving)
     /\ (~Serving \/ ~Serving') => (InFlight = {} /\ call' = call /\ served' = 0)
     /\ Serving => (Serving' /\ initRes' = initRes)
     /\ InFlight # {} => (Serving /\ initRes \in {"ok", "err"})]_vars

C16_Witness ==
  /\ Serving /\ initRes = "ok"
  /\ call["p1"].op = "add_document" /\ call["p2"].op = "search"
  /\ coll0[regular_collection].exists /\ KnowledgePoints = {}

----------------------------------------------------------------------------
(* search_documents, checked under Spec *)

\* The result is what search_documents makes of a point of the collection
CarriesPoint(query, result) ==
  \E pt \in KnowledgePoints :
    /\ result.score = Score(regular_collection, Embed(query), pt)
    /\ result.content = pt.payload["content"]
    /\ result.metadata = MapWithout(pt.payload, "content")

\* C17: a successful search(query, k, threshold) returns at most k results,
\* every score is at least the threshold when one is given, the results are in
\* descending order of score, and every result carries the content and the
\* other payload fields of a point of the knowledge collection.
C17_SearchResults ==
  \A p \in Procs :
    (call[p].op = "search" /\ IsDone(p) /\ call[p].res.kind = "results") =>
      LET rs == call[p].res.results
      IN  /\ Len(rs) <= call[p].k
          /\ call[p].th.some => \A i \in 1..Len(rs) : rs[i].score >= call[p].th.v
          /\ \A i, j \in 1..Len(rs) : i < j => rs[i].score >= rs[j].score
          /\ \A i \in 1..Len(rs) : CarriesPoint(call[p].q, rs[i])

C17_Witness ==
  \E p \in Procs :
    /\ call[p].op = "search" /\ IsDone(p) /\ call[p].res.kind = "results"
    /\ call[p].th = SomeThreshold(500) /\ call[p].k = 2
    /\ Cardinality(KnowledgePoints) = 2
    /\ Len(call[p].res.results) = 1
    /\ call[p].res.results[1].content = call[p].q

----------------------------------------------------------------------------
(* parse_contract, checked under SpecParse *)

\* Token i is inside a line comment: a comment start with no line end between
\* it and i
InComment(text, i) ==
  \E c \in 1..(i - 1) :
    /\ text[c] = CommentStart
    /\ \A k \in (c + 1)..(i - 1) : text[k] # LineEnd

\* A contract declaration starts at token i: the keyword as a word of its
\* own, outside comments, then white space, then a name
DeclarationAt(text, i) ==
  /\ ContractReMatchesAt(text, i)
  /\ i > 1 => text[i - 1] \notin WordTokens
  /\ ~InComment(text, i)

Declarations(text) == {i \in 1..Len(text) : DeclarationAt(text, i)}

FirstDeclaration(text) ==
  CHOOSE i \in Declarations(text) : \A j \in Declarations(text) : i <= j

\* C18: parse_contract fails exactly when the text holds no contract
\* declaration, and when it succeeds the name is that of the first
\* declaration.
C18_ParseContractName ==
  parsed # NotParsed =>
    /\ ~parsed.ok <=> Declarations(parseContent) = {}
    /\ parsed.ok =>
         parsed.name = CapturedName(parseContent, FirstDeclaration(parseContent))

----------------------------------------------------------------------------
(* Discovery failing inside embed_contract_pairs, checked under SpecBatch *)

\* C28: when find_contract_pairs fails inside embed_contract_pairs, the call
\* returns that error, no upsert has been made and the index is as it was; no
\* upsert is made before find_contract_pairs has returned its result.
C28_DiscoverFailsBeforeUpsert ==
  bOp = EmbedContractPairs =>
    /\ attempts # <<>> => (mPc = "done" /\ mRes.ok)
    /\ (bRes.returned /\ mPc = "done" /\ ~mRes.ok) =>
         /\ ~bRes.ok /\ bRes.err = mRes.err
         /\ attempts = <<>> /\ nextId = 0
         /\ coll = coll0

C28_Witness ==
  /\ bOp = EmbedContractPairs /\ bRes.returned /\ ~bRes.ok
  /\ readFailed /\ Len(pairs) > 0
  /\ coll0[regular_collection].exists /\ coll = coll0

----------------------------------------------------------------------------
(* The shape of a discovery result, checked under SpecMatch *)

RegistryTargetsDistinct ==
  \A a, b \in DOMAIN ContractMappings :
    a # b => ContractMappings[a] # ContractMappings[b]

\* C29: in every successful result each contract type occurs in at most one
\* pair and no path is both the ink_path of a pair and an entry of
\* unmatched_ink; the registry maps distinct identifiers to distinct targets.
C29_PairsDisjointFromUnmatched ==
  /\ RegistryTargetsDistinct
  /\ Returned =>
       /\ \A id \in DOMAIN ContractMappings :
            Cardinality(PairsOfType(mRes.pairs, id)) <= 1
       /\ \A i \in 1..Len(mRes.pairs) :
            mRes.pairs[i].ink_path \notin Range(mRes.unmatched_ink)

C29_Witness ==
  /\ Returned
  /\ Len(mRes.pairs) = 2
  /\ Len(mRes.unmatched_ink) = 1

ExistingTargets ==
  {FullInkPath(ContractMappings[id]) :
     id \in {n \in DOMAIN ContractMappings : InkExists(ContractMappings[n])}}

\* C30: find_contract_pairs returns an error only after a read of a matched
\* file has failed; when the listing of <solidity>/src yields nothing (the
\* directory is missing or cannot be read) it succeeds with no pairs, no
\* unmatched_solidity entries, and unmatched_ink holding every registry target
\* that exists.
C30_ListingFailureSwallowed ==
  mPc = "done" =>
    /\ ~mRes.ok => readFailed
    /\ contracts = {} =>
         /\ mRes.ok
         /\ mRes.pairs = <<>> /\ mRes.unmatched_solidity = <<>>
         /\ Range(mRes.unmatched_ink) = ExistingTargets

C30_Witness ==
  /\ mPc = "done" /\ mRes.ok
  /\ contracts = {}
  /\ <<"Flipper", "sol">> \in fsDir /\ InkExists("flipper/lib.rs")
  /\ FullInkPath("flipper/lib.rs") \in Range(mRes.unmatched_ink)


----------------------------------------------------------------------------
(* Retrieval, checked under SpecRetrieval *)

\* The result lists search_documents can make of the knowledge collection for
\* the call in slot p
KnowledgeSearchResults(p) ==
  {ToSearchResults(hits) :
     hits \in SearchDocumentsHits(call[p].q, call[p].k, call[p].th)}

\* C21: a structured answer comes from the one knowledge search an answer
\* makes (threshold 0.0, the caller's limit) and never from the generator;
\* with no result it is the empty-result summary with no examples; otherwise
\* it has one example per result used, in order, and its summary counts
\* exactly the examples.
C21_StructuredFromSearch ==
  \A p \in Procs :
    (call[p].op = "structured" /\ IsDone(p)) =>
      /\ call[p].gen = 0 /\ call[p].genOut = "none"
      /\ call[p].idxReq = 1
      /\ call[p].th = SomeThreshold(AnswerThreshold)
      /\ call[p].res.kind = "formatted" =>
           LET rs == call[p].results
               f  == call[p].res.formatted
           IN  /\ rs \in KnowledgeSearchResults(p)
               /\ Len(rs) = 0 =>
                    /\ f.summary = <<"no_examples_found">>
                    /\ f.examples = <<>>
               /\ Len(rs) > 0 =>
                    /\ Len(f.examples) = Min(Len(rs), StructuredTake)
                    /\ \A i \in 1..Len(f.examples) : f.examples[i] = CodeExample(rs[i])
                    /\ f.summary = <<"found", Len(f.examples)>>

C21_Witness ==
  \E p \in Procs :
    /\ call[p].op = "structured" /\ IsDone(p)
    /\ call[p].res.kind = "formatted"
    /\ Len(call[p].results) = 4
    /\ Len(call[p].res.formatted.examples) = 3

\* C22: within one answer call the knowledge search comes before the
\* generator and the generator before the response; the generator is asked at
\* most once, only after the search returned at least one result, with the
\* context made of those results, and never on the path that answers straight
\* after the search.
C22_GeneratorAfterSearch ==
  [][\A p \in Procs :
       /\ call'[p].gen > call[p].gen =>
            /\ call[p].op = "answer" /\ call[p].pc = "generate"
            /\ call[p].gen = 0 /\ call'[p].gen = 1
            /\ call[p].idxReq = 1 /\ call[p].idxErr = 0
            /\ Len(call[p].results) > 0
            /\ call[p].ctx = PrepareContext(call[p].results)
            /\ call'[p].pc = "done"
       /\ (call[p].op = "answer" /\ call'[p].idxReq > call[p].idxReq) =>
            /\ call[p].pc = "search" /\ call[p].gen = 0 /\ call[p].idxReq = 0
       /\ (call[p].op = "answer" /\ call[p].pc = "search" /\ call'[p].pc = "done") =>
            /\ call'[p].gen = 0
            /\ call'[p].res.kind = "err" \/ Len(call'[p].results) = 0
       /\ (call[p].op = "answer" /\ call[p].pc = "search"
             /\ call'[p].pc = "generate") =>
            /\ call'[p].idxReq = 1 /\ Len(call'[p].results) > 0
    ]_vars

C22_Witness ==
  \E p \in Procs :
    /\ call[p].op = "answer" /\ IsDone(p)
    /\ call[p].gen = 1 /\ call[p].idxReq = 1
    /\ call[p].res.kind = "text"

\* C27: a search result that returns a document add_document stored has the
\* document's text as its content and every key and value of the supplied
\* metadata in its metadata.
C27_RoundTrip ==
  \A p \in Procs :
    (call[p].op = "search" /\ IsDone(p) /\ call[p].res.kind = "results") =>
      LET rs == call[p].res.results
      IN  \A i \in 1..Len(rs) : \A s \in supplied :
            (\E pt \in KnowledgePoints :
               /\ pt.id = s.id
               /\ rs[i] = ToSearchResult(Hit(regular_collection, Embed(call[p].q), pt))) =>
              /\ rs[i].content = s.text
              /\ \A key \in DOMAIN s.metadata :
                   /\ key \in DOMAIN rs[i].metadata
                   /\ rs[i].metadata[key] = s.metadata[key]


----------------------------------------------------------------------------
(* format_code, checked under SpecFormat *)

\* The numbers of the lines of the content that the snippet renders
RenderedLines ==
  {formatted.lines[i][2] : i \in {j \in 1..Len(formatted.lines) :
                                    formatted.lines[j] # MoreCodeMarker}}

HasMarker == \E i \in 1..Len(formatted.lines) : formatted.lines[i] = MoreCodeMarker

\* C26: the snippet holds at most LineCap + 1 lines of the content, and the
\* truncation marker is there exactly when the content has a line past the
\* cap that the snippet does not render.
C26_MarkerIffTruncated ==
  formatted.done =>
    /\ Cardinality(RenderedLines) <= LineCap + 1
    /\ HasMarker <=>
         \E n \in 1..Len(codeContent) : n > LineCap /\ n \notin RenderedLines


----------------------------------------------------------------------------
(* parse_contract on written declarations, checked under SpecParseDecls *)

DeclsOfKinds(kinds) ==
  {k \in 1..Len(declarations) : declarations[k].kind \in kinds}

\* C23: every function parse_contract emits, the constructor aside, is a
\* function whose own declaration has a visibility keyword; a function
\* declared without one is not in functions.
C23_FunctionsHaveVisibility ==
  parsed # NotParsed =>
    \A k \in 1..Len(parsed.functions) :
      parsed.functions[k].name # "constructor" =>
        \E n \in DeclsOfKinds({"function"}) :
          /\ declarations[n].name = parsed.functions[k].name
          /\ declarations[n].vis \in Visibilities

\* The parameter of the written event that has this type and name
WrittenParameters(event_name, parameter) ==
  {ws \in UNION {Range(declarations[n].params) :
                   n \in {m \in DeclsOfKinds({"event"}) :
                            declarations[m].name = event_name}} :
     /\ <<ws[1]>> = parameter.type_name
     /\ <<ws[Len(ws)]>> = parameter.name}

\* C24: an event parameter is indexed exactly when one of the words of its
\* declaration is the word indexed.
C24_IndexedIffToken ==
  parsed # NotParsed =>
    \A e \in 1..Len(parsed.events) :
      \A k \in 1..Len(parsed.events[e].parameters) :
        LET parameter == parsed.events[e].parameters[k]
        IN  \A ws \in WrittenParameters(parsed.events[e].name, parameter) :
              parameter.is_indexed <=> (\E w \in 1..Len(ws) : ws[w] = "indexed")

\* The state variables parse_contract emitted under this name
VariablesNamed(name) ==
  {k \in 1..Len(parsed.state_variables) : parsed.state_variables[k].name = name}

\* C25: parse_contract emits one state variable per written state
\* declaration, none missed and none twice; a plain declaration gives a
\* variable that is no mapping and has no key or value type, a single mapping
\* one that is a mapping with the written key and value types.
C25_OneVariablePerDeclaration ==
  parsed # NotParsed =>
    /\ Len(parsed.state_variables) = Cardinality(DeclsOfKinds(StateDeclKinds))
    /\ \A n \in DeclsOfKinds(StateDeclKinds) :
         LET d == declarations[n]
         IN  /\ Cardinality(VariablesNamed(d.name))
                  = Cardinality({m \in DeclsOfKinds(StateDeclKinds) :
                                   declarations[m].name = d.name})
             /\ \A k \in VariablesNamed(d.name) :
                  LET v == parsed.state_variables[k]
                  IN  /\ v.visibility = d.vis
                      /\ d.kind = "plain" =>
                           /\ ~v.is_mapping
                           /\ v.type_name = <<d.types[1]>>
                           /\ v.key_type = NoType /\ v.value_type = NoType
                      /\ d.kind = "mapping" =>
                           /\ v.is_mapping
                           /\ v.key_type = SomeType(<<d.types[1]>>)
                           /\ v.value_type = SomeType(<<d.types[2]>>)
                      /\ d.kind = "nested" => v.is_mapping

C25_Witness ==
  /\ parsed # NotParsed
  /\ declarations = ERC20State
  /\ Len(parsed.state_variables) = 6

====
